---- MODULE Spec2Model ----
(***************************************************************************)
(* Model of the document lifecycle manager (DocMgr, server/src/index.ts).  *)
(* A document is a function from key names to values; a payload is a       *)
(* sequence of key/value pairs (JavaScript keeps insertion order, and      *)
(* toMongoUpdate depends on it).  Every public operation is one action.    *)
(***************************************************************************)
EXTENDS Integers, Sequences, FiniteSets, TLC

\* docColl, userColl: the stored documents per type and the stored user groups;
\* userGroupCache: DocMgr.userGroupCache; nextOid: the next id the store assigns;
\* forOfThrows: whether the build's for..of throws on a value that is not iterable;
\* adminWrote: an admin has called createDoc, createDocById, updateDoc or deleteDoc;
\* exported: the answer of export that the caller has kept (<<>> when none);
\* attColl: the stored attachments;
\* inflight: per caller, the updateDoc call that has read the document and passed
\* its checks, and has not reached its updateOne;
\* res: the call being answered
VARIABLES docColl, userColl, attColl, userGroupCache, nextOid, forOfThrows, adminWrote,
          exported, inflight, res

vars ==
    <<docColl, userColl, attColl, userGroupCache, nextOid, forOfThrows, adminWrote, exported,
      inflight, res>>

(***************************************************************************)
(* Bounds                                                                  *)
(***************************************************************************)
\* number of documents stored at the same time, over all collections
MaxDocs == 1

(***************************************************************************)
(* JavaScript values used in documents                                     *)
(***************************************************************************)
Person(e) == [email |-> e]
\* an array of Person records
Arr(s) == [t |-> "arr", v |-> s]
\* a single Person object (not an array)
Obj(p) == [t |-> "obj", v |-> <<p>>]

Has(o, k) == k \in DOMAIN o
\* {...a, ...b}
Spread(a, b) == [k \in (DOMAIN a) \cup (DOMAIN b) |-> IF k \in DOMAIN b THEN b[k] ELSE a[k]]
\* delete o[k]
Without(o, k) == [x \in (DOMAIN o) \ {k} |-> o[x]]
EmptyObj == [k \in {} |-> ""]
\* const x = v; followed by the code F that uses x
With(v, F(_)) == F(v)

\* payload: sequence of [key, value]; lookup of a key (keys are unique)
PHas(p, k) == \E i \in 1..Len(p) : p[i].key = k
PGet(p, k) == p[CHOOSE i \in 1..Len(p) : p[i].key = k].value
\* args[k] = v : replaces in place, or appends a new key
PSet(p, k, v) ==
    IF PHas(p, k)
    THEN [i \in 1..Len(p) |-> IF p[i].key = k THEN [key |-> k, value |-> v] ELSE p[i]]
    ELSE Append(p, [key |-> k, value |-> v])

(***************************************************************************)
(* Callers (UserContext.user)                                              *)
(***************************************************************************)
UserIds == {"admin1", "manager1", "user1", "guest1"}

Users ==
    [admin1   |-> [id |-> "admin1",   email |-> "admin1@test.com",   roles |-> {"Employee", "Admin"}],
     manager1 |-> [id |-> "manager1", email |-> "manager1@test.com", roles |-> {"Employee"}],
     user1    |-> [id |-> "user1",    email |-> "user1@test.com",    roles |-> {"Employee"}],
     guest1   |-> [id |-> "guest1",   email |-> "guest1@test.com",   roles |-> {}]]

(***************************************************************************)
(* DocMgr construction arguments                                           *)
(***************************************************************************)
adminIds == {}
adminRole == "Admin"
adminGroups == <<"admin">>
\* userGroups: [{id:'management'},{id:'procurement'}]
ConfiguredGroups == <<"management", "procurement">>

\* a gate: undefined | string[] | StateCallback
NoGate == [kind |-> "undefined", groups |-> <<>>, fn |-> ""]
Static(gs) == [kind |-> "static", groups |-> gs, fn |-> ""]
Callback(f) == [kind |-> "callback", groups |-> <<>>, fn |-> f]

NoNext == [k \in {} |-> [groups |-> <<>>, action |-> FALSE]]
Next1(t, g, a) == t :> [groups |-> g, action |-> a]

\* a DocState with every optional member absent
PlainState ==
    [entry |-> NoGate, read |-> NoGate, write |-> NoGate, exit |-> NoGate, delete |-> NoGate,
     onEntry |-> FALSE, onReentry |-> FALSE, onRead |-> FALSE, onWrite |-> FALSE,
     onExit |-> FALSE, onDelete |-> FALSE, action |-> FALSE,
     nextStates |-> NoNext, hasNextStates |-> TRUE]

\* The names that the 'in' operator and a property lookup find in every object
\* literal although the literal does not declare them: the members it inherits
\* from Object.prototype
InheritedKeys == {"constructor"}
\* doc.states['constructor']: the function Object, which has none of the members
\* of a DocState, nextStates included
ObjectMember == [PlainState EXCEPT !.hasNextStates = FALSE]

ReadAll == Static(<<"Employee", "procurement", "management">>)

\* getTestStates() of the test program
TestStates ==
    [requested |-> [PlainState EXCEPT !.read = ReadAll, !.write = Static(<<"Employee">>),
                       !.nextStates = Next1("approved", <<"management">>, FALSE)
                                   @@ Next1("closed", <<"procurement">>, FALSE)],
     approved  |-> [PlainState EXCEPT !.read = ReadAll, !.write = Static(<<"management">>),
                       !.nextStates = Next1("purchased", <<"procurement">>, FALSE)
                                   @@ Next1("closed", <<"procurement">>, FALSE)],
     purchased |-> [PlainState EXCEPT !.read = ReadAll, !.write = Static(<<"procurement">>),
                       !.nextStates = Next1("closed", <<"procurement">>, FALSE)],
     closed    |-> [PlainState EXCEPT !.read = ReadAll, !.write = Static(<<"procurement">>)]]

\* the 'profile' type of the test program: one state, gates computed by profileACL
ProfileStates ==
    [created |-> [PlainState EXCEPT !.entry = Callback("profileACL"),
                                    !.read = Callback("profileACL"),
                                    !.write = Callback("profileACL")]]

\* a type that declares every kind of gate and hook
GatedStates ==
    [draft  |-> [PlainState EXCEPT !.write = Static(<<"Employee">>),
                    !.onEntry = TRUE, !.onRead = TRUE, !.onWrite = TRUE, !.onDelete = TRUE,
                    !.action = TRUE,
                    !.nextStates = Next1("draft", <<"Employee">>, FALSE)
                                @@ Next1("review", <<"Employee">>, TRUE)
                                @@ Next1("sealed", <<"Manager">>, FALSE)],
     review |-> [PlainState EXCEPT !.entry = Static(<<"management">>),
                    !.read = Static(<<"Employee">>), !.write = Static(<<"ProcOwner">>),
                    !.exit = Static(<<"management">>), !.delete = Static(<<"management">>),
                    !.onEntry = TRUE, !.onReentry = TRUE, !.onExit = TRUE, !.action = TRUE,
                    !.nextStates = Next1("draft", <<"Employee">>, FALSE)
                                @@ Next1("review", <<"management">>, FALSE)],
     sealed |-> [PlainState EXCEPT !.read = Static(<<>>), !.write = Static(<<>>),
                    !.exit = Static(<<>>), !.delete = Static(<<>>),
                    !.nextStates = Next1("draft", <<"Employee">>, FALSE)]]

Types == {"testDocType", "profile", "gated"}

\* DocMgrCreateArgs.documents
documents ==
    [testDocType |-> [states |-> TestStates, document_id_required |-> FALSE, docRoles |-> {}],
     profile     |-> [states |-> ProfileStates, document_id_required |-> TRUE, docRoles |-> {}],
     gated       |-> [states |-> GatedStates, document_id_required |-> FALSE,
                      docRoles |-> {"Manager", "ProcOwner"}]]

\* docRoles of 'gated': Manager is the group name "management",
\* ProcOwner is a callback returning ctx.document.procurement
RoleIsCallback(role) == role = "ProcOwner"
RoleGroup(role) == IF role = "Manager" THEN "management" ELSE ""

(***************************************************************************)
(* Pure helpers of DocMgr                                                  *)
(***************************************************************************)
\* String.split('$')[0] on the strings the model uses: the part before the first '$'
SplitDollar(s) == IF s = "approved$v2" THEN "approved" ELSE s

\* toInfo(doc, copy): expose the storage key _id as id unless the document has an id field
toInfo(doc) ==
    LET d == IF ~Has(doc, "id") /\ Has(doc, "_id") THEN Spread(("id" :> doc["_id"]), doc) ELSE doc
    IN  IF Has(d, "_id") THEN Without(d, "_id") ELSE d

\* hasNonStateKey(args)
hasNonStateKey(args) == \E i \in 1..Len(args) : args[i].key # "state"

\* the test program's StateCallback: groups are ['Employee'] iff caller.id = document.id
profileACL(caller, document) ==
    IF Has(document, "id") /\ document["id"] = caller.id THEN <<"Employee">> ELSE <<>>

\* getInUserGroups: the group list of a gate (a callback is called with toInfo(doc, true))
\* a getInUserGroups that answers with the list cached in the document
getInUserGroups_CachedList(caller, arg, doc) ==
    IF Has(doc, "curStateWrite") THEN doc["curStateWrite"]
    ELSE IF arg.kind = "callback" THEN profileACL(caller, toInfo(doc)) ELSE arg.groups

getInUserGroups(caller, arg, doc) ==
    IF arg.kind = "callback" THEN profileACL(caller, toInfo(doc)) ELSE arg.groups

\* UserGroupInfo
Group(id, members, deletable) == [id |-> id, members |-> members, deletable |-> deletable]
\* a record of the user collection: the group, under the _id the store gave it
StoredGroup(oid, g) ==
    [_id |-> oid, id |-> g.id, members |-> g.members, deletable |-> g.deletable]
\* toInfo on a record of the user collection: it has an id field, so that only
\* _id is removed
groupInfo(s) == Group(s.id, s.members, s.deletable)
\* the _ids the store gives to the records of the user collection
GroupOids == <<"gid1", "gid2", "gid3", "gid4", "gid5", "gid6", "gid7", "gid8">>

\* first record of the user collection with the given id (findOne({id}))
FindGroupIdx(coll, id) ==
    IF \E i \in 1..Len(coll) : coll[i].id = id
    THEN CHOOSE i \in 1..Len(coll) : coll[i].id = id /\ \A j \in 1..(i-1) : coll[j].id # id
    ELSE 0

(***************************************************************************)
(* Group membership resolution.  Every operator threads the group cache    *)
(* (lookupUserGroup fills it) and, where isAdmin is involved, the memo     *)
(* ctx.isAdmin ("unset", "true" or "false").                               *)
(***************************************************************************)
lookupUserGroup(cache, id) ==
    IF id \in DOMAIN cache
    THEN [found |-> TRUE, members |-> cache[id].members, cache |-> cache]
    ELSE With(FindGroupIdx(userColl, id), LAMBDA i :
             IF i # 0
             THEN [found |-> TRUE, members |-> userColl[i].members,
                   cache |-> (id :> groupInfo(userColl[i])) @@ cache]
             ELSE [found |-> FALSE, members |-> <<>>, cache |-> cache])

\* a _getMembers in which the stored group wins over a document field of its name
getMembersOfGroup_StoredGroupFirst(cache, groupName, doc, hasDoc) ==
    With(lookupUserGroup(cache, groupName), LAMBDA ug :
        IF ~ug.found /\ hasDoc /\ Has(doc, groupName)
        THEN [defined |-> TRUE, mv |-> doc[groupName], cache |-> cache]
        ELSE [defined |-> TRUE, mv |-> Arr(ug.members), cache |-> ug.cache])

\* _getMembers: a document field named groupName wins over the stored group
\* (hasDoc is FALSE when no document is passed)
getMembersOfGroup(cache, groupName, doc, hasDoc) ==
    IF hasDoc /\ Has(doc, groupName)
    THEN [defined |-> TRUE, mv |-> doc[groupName], cache |-> cache]
    ELSE With(lookupUserGroup(cache, groupName), LAMBDA ug :
             [defined |-> TRUE, mv |-> Arr(ug.members), cache |-> ug.cache])

\* getMembers: document roles first
getMembers(cache, groupName, type, doc, hasDoc) ==
    IF type # "" /\ groupName \in documents[type].docRoles
    THEN IF RoleIsCallback(groupName)
         THEN IF hasDoc
              THEN \* ctx.document.procurement, undefined when the field is absent
                   IF Has(doc, "procurement")
                   THEN [defined |-> TRUE, mv |-> doc["procurement"], cache |-> cache]
                   ELSE [defined |-> FALSE, mv |-> Arr(<<>>), cache |-> cache]
              ELSE [defined |-> TRUE, mv |-> Arr(<<>>), cache |-> cache]
         ELSE getMembersOfGroup(cache, RoleGroup(groupName), doc, hasDoc)
    ELSE getMembersOfGroup(cache, groupName, doc, hasDoc)

\* an isInUserGroup without the test of the caller's roles
isInUserGroup_MembersOnly(cache, caller, groupName, type, doc, hasDoc) ==
    With(getMembers(cache, groupName, type, doc, hasDoc), LAMBDA m :
        [r |-> IF m.defined /\ m.mv.t = "arr"
                  /\ \E i \in 1..Len(m.mv.v) : m.mv.v[i].email = caller.email
               THEN "yes" ELSE "no",
         cache |-> m.cache])

\* isInUserGroup: "yes", "no", or "throw" (for..of over a value that is not an array)
isInUserGroup(cache, caller, groupName, type, doc, hasDoc) ==
    IF groupName \in caller.roles
    THEN [r |-> "yes", cache |-> cache]
    ELSE With(getMembers(cache, groupName, type, doc, hasDoc), LAMBDA m :
             IF ~m.defined THEN [r |-> "no", cache |-> m.cache]
             ELSE IF m.mv.t = "obj"
                  THEN [r |-> IF forOfThrows THEN "throw" ELSE "no", cache |-> m.cache]
                  ELSE [r |-> IF \E i \in 1..Len(m.mv.v) : m.mv.v[i].email = caller.email
                              THEN "yes" ELSE "no",
                        cache |-> m.cache])

\* the loop of isInUserGroups over groupNames, from index i
RECURSIVE memberLoop(_, _, _, _, _, _, _)
memberLoop(cache, caller, groupNames, i, type, doc, hasDoc) ==
    IF i > Len(groupNames)
    THEN [r |-> "no", cache |-> cache]
    ELSE With(isInUserGroup(cache, caller, groupNames[i], type, doc, hasDoc), LAMBDA m :
             IF m.r = "no"
             THEN memberLoop(m.cache, caller, groupNames, i + 1, type, doc, hasDoc)
             ELSE m)

\* isAdmin(ctx): e = [cache, admin]; result b plus the updated e
isAdmin(e, caller) ==
    IF e.admin = "unset"
    THEN IF caller.id \in adminIds \/ adminRole \in caller.roles
         THEN [b |-> TRUE, cache |-> e.cache, admin |-> "true"]
         ELSE With(memberLoop(e.cache, caller, adminGroups, 1, "", EmptyObj, FALSE), LAMBDA m :
                  [b |-> (m.r = "yes"), cache |-> m.cache,
                   admin |-> IF m.r = "yes" THEN "true" ELSE "false"])
    ELSE [b |-> (e.admin = "true"), cache |-> e.cache, admin |-> e.admin]

\* isInUserGroups(ctx, groupNames, type, doc) called with fromIsAdmin unset
isInUserGroups(e, caller, groupNames, type, doc, hasDoc) ==
    With(memberLoop(e.cache, caller, groupNames, 1, type, doc, hasDoc), LAMBDA m :
        IF m.r # "no"
        THEN [r |-> m.r, cache |-> m.cache, admin |-> e.admin]
        ELSE With(isAdmin([cache |-> m.cache, admin |-> e.admin], caller), LAMBDA a :
                 [r |-> IF a.b THEN "yes" ELSE "no", cache |-> a.cache, admin |-> a.admin]))

\* assertInUserGroups without the refusal of an empty list
assertInUserGroups_EmptyListPasses(e, caller, arg, type, doc) ==
    IF arg.kind = "undefined" \/ Len(getInUserGroups(caller, arg, doc)) = 0
    THEN [r |-> "ok", cache |-> e.cache, admin |-> e.admin]
    ELSE With(isInUserGroups(e, caller, getInUserGroups(caller, arg, doc), type, doc, TRUE),
              LAMBDA m :
             [r |-> IF m.r = "yes" THEN "ok" ELSE IF m.r = "throw" THEN "throw" ELSE "denied",
              cache |-> m.cache, admin |-> m.admin])

\* assertInUserGroups: "ok", "denied" (401) or "throw"
assertInUserGroups(e, caller, arg, type, doc) ==
    IF arg.kind = "undefined"
    THEN [r |-> "ok", cache |-> e.cache, admin |-> e.admin]
    ELSE With(getInUserGroups(caller, arg, doc), LAMBDA groups :
             IF Len(groups) = 0
             THEN [r |-> "denied", cache |-> e.cache, admin |-> e.admin]
             ELSE With(isInUserGroups(e, caller, groups, type, doc, TRUE), LAMBDA m :
                      IF m.r = "yes" THEN [r |-> "ok", cache |-> m.cache, admin |-> m.admin]
                      ELSE IF m.r = "throw"
                           THEN [r |-> "throw", cache |-> m.cache, admin |-> m.admin]
                           ELSE \* isInUserGroups already found the caller not to be an admin
                                [r |-> "denied", cache |-> m.cache, admin |-> m.admin]))

\* StateCallbackContextImpl.isCallerInGroup(groups):
\* mgr.isInUserGroups(ctx, groups, this.type, this.doc)
isCallerInGroup(e, caller, groups, type, doc) ==
    isInUserGroups(e, caller, groups, type, doc, TRUE)

\* StateCallbackContextImpl.assertCallerInGroup(groups):
\* mgr.assertInUserGroups(ctx, groups, this.doc, this.type).  The document arrives
\* as the parameter type and the type name as the parameter doc: documents[type] is
\* undefined for an object, so that getDocRoles finds no document role, and
\* getField on a string throws inside the try of _getMembers, so that no document
\* field is read and every name is looked up as a stored group.
assertCallerInGroup(e, caller, groups, type, doc) ==
    IF Len(groups) = 0
    THEN [r |-> "denied", cache |-> e.cache, admin |-> e.admin]
    ELSE With(isInUserGroups(e, caller, groups, "", EmptyObj, FALSE), LAMBDA m :
             [r |-> IF m.r = "yes" THEN "ok" ELSE "denied", cache |-> m.cache, admin |-> m.admin])

(***************************************************************************)
(* State lookup and the has...Access checks                                *)
(***************************************************************************)
\* getDocState(ctx, type, state): hasState is FALSE when state is undefined
getDocState(e, caller, type, hasState, state) ==
    With(documents[type].states, LAMBDA states :
        IF hasState
        THEN IF SplitDollar(state) \in DOMAIN states
             THEN [r |-> "ok", def |-> states[SplitDollar(state)], cache |-> e.cache, admin |-> e.admin]
             ELSE IF SplitDollar(state) \in InheritedKeys
             THEN \* (state in doc.states) holds, and doc.states[state] is returned
                  [r |-> "ok", def |-> ObjectMember, cache |-> e.cache, admin |-> e.admin]
             ELSE With(isAdmin(e, caller), LAMBDA a :
                      [r |-> IF a.b THEN "ok" ELSE "err400", def |-> PlainState,
                       cache |-> a.cache, admin |-> a.admin])
        ELSE IF Cardinality(DOMAIN states) # 1
             THEN [r |-> "err400", def |-> PlainState, cache |-> e.cache, admin |-> e.admin]
             ELSE [r |-> "ok", def |-> states[CHOOSE n \in DOMAIN states : TRUE],
                   cache |-> e.cache, admin |-> e.admin])

StateOf(doc) == IF Has(doc, "state") THEN doc["state"] ELSE ""

\* the gate of a state definition by name
GateOf(def, gate) ==
    CASE gate = "entry" -> def.entry
      [] gate = "read" -> def.read
      [] gate = "write" -> def.write
      [] gate = "exit" -> def.exit
      [] gate = "delete" -> def.delete

\* has...Access that only looks the state up and skips the gate
hasAccess_NoGateCheck(e, caller, type, doc, gate) ==
    With(getDocState(e, caller, type, Has(doc, "state"), StateOf(doc)), LAMBDA ds :
        [r |-> IF ds.r # "ok" THEN "err400" ELSE "yes", cache |-> ds.cache, admin |-> ds.admin])

\* hasEntryAccess / hasReadAccess / hasWriteAccess / hasDeleteAccess:
\* "yes", "no" (any error of the gate check is caught), or "err400" from getDocState
hasAccess(e, caller, type, doc, gate) ==
    With(getDocState(e, caller, type, Has(doc, "state"), StateOf(doc)), LAMBDA ds :
        IF ds.r # "ok"
        THEN [r |-> "err400", cache |-> ds.cache, admin |-> ds.admin]
        ELSE With(assertInUserGroups([cache |-> ds.cache, admin |-> ds.admin], caller,
                                     GateOf(ds.def, gate), type, doc), LAMBDA a :
                 [r |-> IF a.r = "ok" THEN "yes" ELSE "no", cache |-> a.cache, admin |-> a.admin]))

(***************************************************************************)
(* One call in progress: status 0 while running, then the error status;    *)
(* trace lists the gate checks, hooks and storage writes in order.         *)
(***************************************************************************)
Start == [status |-> 0, kind |-> "", trace |-> <<>>, cache |-> userGroupCache, admin |-> "unset"]
Env(r) == [cache |-> r.cache, admin |-> r.admin]
Fail(r, status, kind) == [r EXCEPT !.status = status, !.kind = kind]
Ev(r, ev) == IF r.status # 0 THEN r ELSE [r EXCEPT !.trace = Append(@, ev)]
Hook(r, declared, ev) == IF declared THEN Ev(r, ev) ELSE r

\* await this.assertInUserGroups(ctx, arg, type, doc)
StepAssert(r, caller, arg, type, doc, ev) ==
    IF r.status # 0 THEN r
    ELSE With(assertInUserGroups(Env(r), caller, arg, type, doc), LAMBDA a :
             LET r1 == [r EXCEPT !.cache = a.cache, !.admin = a.admin, !.trace = Append(@, ev)]
             IN  IF a.r = "ok" THEN r1
                 ELSE IF a.r = "denied" THEN Fail(r1, 401, "AccessDenied")
                 ELSE Fail(r1, 500, "TypeError"))

\* assertEntryAccess / assertReadAccess / assertWriteAccess / assertDeleteAccess
StepAccess(r, caller, type, doc, gate, ev) ==
    IF r.status # 0 THEN r
    ELSE With(hasAccess(Env(r), caller, type, doc, gate), LAMBDA h :
             LET r1 == [r EXCEPT !.cache = h.cache, !.admin = h.admin, !.trace = Append(@, ev)]
             IN  IF h.r = "yes" THEN r1
                 ELSE IF h.r = "no" THEN Fail(r1, 401, "AccessDenied")
                 ELSE Fail(r1, 400, "InvalidState"))

\* const docState = await this.getDocState(...): ds is what getDocState(Env(r), ...)
\* returned, ds.def the definition (only used where the step succeeded)
StepState(r, ds) ==
    IF r.status # 0 THEN r
    ELSE LET r1 == [r EXCEPT !.cache = ds.cache, !.admin = ds.admin]
         IN  IF ds.r = "ok" THEN r1 ELSE Fail(r1, 400, "InvalidState")

\* the cached group list: (await getInUserGroups(ctx, gate, type, doc)) || []
CacheList(caller, gate, doc) ==
    IF gate.kind = "undefined" THEN <<>> ELSE getInUserGroups(caller, gate, doc)

(***************************************************************************)
(* Storage                                                                 *)
(***************************************************************************)
Oids == <<"oid1", "oid2", "oid3", "oid4">>
\* the store hands out at most this many ids
OidCap == MaxDocs
\* ids a caller supplies to createDocById
CallerIds == {"user1"}
\* number of documents stored, over all collections
StoredCount(coll) ==
    Cardinality({<<t, id>> \in Types \X (UNION {DOMAIN coll[t] : t \in Types}) :
                    id \in DOMAIN coll[t]})

\* toMongoUpdate(obj): a '$' key replaces result[key] by a fresh object, so that the
\* plain keys that follow a '$set' key are written to an object that is no longer used
RECURSIVE toMongoUpdateFrom(_, _, _, _)
toMongoUpdateFrom(obj, i, setObj, result) ==
    IF i > Len(obj) THEN result
    ELSE LET key == obj[i].key
             val == obj[i].value
         IN  IF key \in {"$set", "$unset"}
             THEN toMongoUpdateFrom(obj, i + 1, setObj,
                      [result EXCEPT ![key] = Spread(@, val), !.live = @ /\ key # "$set"])
             ELSE LET v == IF key = "state" THEN SplitDollar(val) ELSE val
                      setObj2 == Spread(setObj, (key :> v))
                  IN  toMongoUpdateFrom(obj, i + 1, setObj2,
                          IF result.live THEN [result EXCEPT !["$set"] = setObj2] ELSE result)

\* result.live: result.$set still is setObj
toMongoUpdate(obj) ==
    toMongoUpdateFrom(obj, 1, EmptyObj, [live |-> TRUE] @@ ("$set" :> EmptyObj) @@ ("$unset" :> EmptyObj))

\* updateOne(filter, update) on one stored document
ApplyUpdate(doc, upd) ==
    LET d1 == Spread(doc, upd["$set"])
    IN  [k \in (DOMAIN d1) \ (DOMAIN upd["$unset"]) |-> d1[k]]

(***************************************************************************)
(* Inputs                                                                  *)
(***************************************************************************)
P1(k, v) == <<[key |-> k, value |-> v]>>
U1 == Person("user1@test.com")

\* a type name that is not a key of the registry
UndeclaredType == "nosuch"
\* the type names a call carries
CallTypes == Types \cup {UndeclaredType}

\* bodies of createDoc / createDocById, per document type
CreateBodies(type) ==
    CASE type = "testDocType" ->
           << ("state" :> "requested"),
              ("state" :> "requested") @@ ("procurement" :> Arr(<<U1>>))
                 @@ ("curStateWrite" :> <<"bogus">>) @@ ("curStateRead" :> <<"bogus">>),
              ("state" :> "closed"),
              ("state" :> "approved$v2"),
              ("state" :> "bogus"),
              ("id" :> "mine") @@ ("state" :> "closed"),
              EmptyObj >>
      [] type = "gated" ->
           << ("state" :> "draft"),
              ("state" :> "review") @@ ("procurement" :> Obj(U1)),
              ("state" :> "sealed") >>
      [] type = "profile" ->
           << EmptyObj, ("state" :> "created"), ("id" :> "manager1") >>
      [] type = UndeclaredType ->
           << ("state" :> "requested") >>

\* payloads of updateDoc, per document type
UpdatePayloads(type) ==
    CASE type = "testDocType" ->
           << P1("state", "approved"),
              P1("state", "closed"),
              P1("state", ""),
              P1("state", "approved") \o P1("procurement", Arr(<<U1>>)),
              P1("procurement", Arr(<<U1>>)),
              P1("procurement", Obj(U1)),
              P1("curStateWrite", <<"bogus">>) \o P1("procurement", Arr(<<U1>>)),
              P1("$set", ("state" :> "requested")),
              P1("$set", ("curStateWrite" :> <<"bogus">>)) \o P1("procurement", Arr(<<U1>>)) >>
      [] type = "gated" ->
           << P1("state", "draft"),
              P1("state", "review"),
              P1("state", "sealed"),
              P1("state", "review") \o P1("procurement", Arr(<<U1>>)),
              P1("procurement", Arr(<<U1>>)),
              P1("procurement", Obj(U1)) >>
      [] type = "profile" ->
           << P1("procurement", Arr(<<U1>>)), P1("state", "created") >>
      [] type = UndeclaredType ->
           << P1("state", "approved") >>

\* the body of a runActionForDoc call
ActionArgs == P1("message", "hello")

\* A stored _id is an ObjectId or a string.  A key of a collection is the text of
\* the _id, except for a string that is the text of an ObjectId: its key is given
\* by HexStringKeys, which maps it to the key of that ObjectId.
HexStringKeys ==
    [k \in {"str_oid1", "str_oid2", "str_oid3", "str_oid4", "str_gid1", "str_gid2", "str_gid3",
            "str_gid4", "str_gid5", "str_gid6", "str_gid7", "str_gid8"} |->
        CASE k = "str_oid1" -> "oid1" [] k = "str_oid2" -> "oid2" [] k = "str_oid3" -> "oid3"
          [] k = "str_oid4" -> "oid4" [] k = "str_gid1" -> "gid1" [] k = "str_gid2" -> "gid2"
          [] k = "str_gid3" -> "gid3" [] k = "str_gid4" -> "gid4" [] k = "str_gid5" -> "gid5"
          [] k = "str_gid6" -> "gid6" [] k = "str_gid7" -> "gid7" [] k = "str_gid8" -> "gid8"]

\* JSON.stringify of an _id: the text of an ObjectId, that is, the string of which
\* HexStringKeys gives the ObjectId; a string stays what it is
JsonId(k) ==
    IF \E h \in DOMAIN HexStringKeys : HexStringKeys[h] = k
    THEN CHOOSE h \in DOMAIN HexStringKeys : HexStringKeys[h] = k
    ELSE k

\* idFilter(id): { _id: new ObjectId(id) } when the text is that of an ObjectId,
\* else { _id: id }
idFilter(k) == IF k \in DOMAIN HexStringKeys THEN HexStringKeys[k] ELSE k

\* the collections that export, import and reset name: the user collection and
\* the collection of each document type
UserCollection == "user"
\* the collection of the attachments
AttachmentCollection == "attachment"

NoGroup == Group("", <<>>, FALSE)
\* an entry of an import payload: hasId is whether it has an _id field
GroupEntry(oid, g) == [hasId |-> TRUE, _id |-> oid, group |-> g, doc |-> EmptyObj]
DocEntry(oid, d) == [hasId |-> TRUE, _id |-> oid, group |-> NoGroup, doc |-> Spread(d, ("_id" :> oid))]
EntryWithoutId == [hasId |-> FALSE, _id |-> "", group |-> NoGroup, doc |-> EmptyObj]

\* the bodies of import: per collection, in the order of the keys, its entries
ImportPayloads ==
    << << [coll |-> UserCollection,
           entries |-> << GroupEntry("imp1", Group("admin", <<Person("manager1@test.com")>>, TRUE)) >>],
          [coll |-> "testDocType",
           entries |-> << DocEntry("imp2", ("state" :> "requested")) >>] >>,
       << [coll |-> UserCollection,
           entries |-> << GroupEntry("imp1", Group("admin", <<Person("manager1@test.com")>>, TRUE)),
                          EntryWithoutId >>] >> >>

\* the calls of importId: collection and body
ImportIdCalls ==
    << [coll |-> UserCollection,
        group |-> Group("admin", <<Person("manager1@test.com")>>, TRUE), doc |-> EmptyObj],
       [coll |-> "testDocType", group |-> NoGroup, doc |-> ("state" :> "closed")],
       [coll |-> UserCollection,
        group |-> Group("admin", <<Person("user1@test.com")>>, FALSE), doc |-> EmptyObj] >>

\* the calls of exportId: collection and id
ExportIdCalls ==
    << [coll |-> UserCollection, id |-> "gid1"], [coll |-> "testDocType", id |-> "oid1"],
       [coll |-> "testDocType", id |-> "nodoc"] >>

\* the groups an admin asks createUserGroup to create
CreateGroups ==
    << Group("admin", <<Person("manager1@test.com")>>, TRUE),
       Group("management", <<Person("user1@test.com")>>, TRUE) >>
\* the group ids a deleteUserGroup call names
DeleteGroupIds == {"admin", "management", "nogroup"}

\* members an admin gives to a group
MemberLists == << <<>>, <<Person("manager1@test.com")>>, <<Person("User1@test.com")>> >>

(***************************************************************************)
(* Initial state: DocMgr constructed and init() done                       *)
(***************************************************************************)
NoDocs == [i \in {} |-> EmptyObj]
\* init(): getOrCreateUserGroup creates each configured group, without members
\* old is the user collection that was dropped: the store gives the new records
\* _ids that it has not given to those
initGroups(old) ==
    [i \in 1..Len(ConfiguredGroups) |->
        StoredGroup(SelectSeq(GroupOids, LAMBDA o : \A j \in 1..Len(old) : old[j]._id # o)[i],
                    Group(ConfiguredGroups[i], <<>>, FALSE))]
InitGroups == initGroups(<<>>)

\* what export, exportIds, exportId and importId return: records of the document
\* collections and of the user collection, or their _ids
EmptyDump ==
    [docs |-> [t \in Types |-> NoDocs], groups |-> <<>>,
     docIds |-> [t \in Types |-> {}], groupIds |-> <<>>]

Result(op, caller, type, id, args, run, pre, ret) ==
    [op |-> op, caller |-> caller, type |-> type, id |-> id, args |-> args,
     status |-> IF run.status = 0 THEN 200 ELSE run.status, kind |-> run.kind,
     trace |-> run.trace, pre |-> pre, ret |-> ret, dump |-> EmptyDump]

IdleRun == [status |-> 0, kind |-> "", trace |-> <<>>]
\* the caller of no call
Nobody == [id |-> "", email |-> "", roles |-> {}]
IdleRes == Result("idle", Nobody, "", "", <<>>, IdleRun, <<>>, <<>>)
\* no call is being answered
Idle == res.op = "idle"

Init ==
    /\ docColl = [t \in Types |-> NoDocs]
    /\ userColl = InitGroups
    /\ userGroupCache = [g \in {ConfiguredGroups[i] : i \in 1..Len(ConfiguredGroups)} |->
                            groupInfo(InitGroups[FindGroupIdx(InitGroups, g)])]
    /\ nextOid = 1
    /\ forOfThrows \in BOOLEAN
    /\ adminWrote = FALSE
    /\ exported = <<>>
    /\ attColl = NoDocs
    /\ inflight = [c \in {} |-> <<>>]
    /\ res = IdleRes

(***************************************************************************)
(* createDoc, createDocById, _createDoc                                    *)
(***************************************************************************)
\* _createDoc that runs onEntry before it checks the entry gate
createRun_HookBeforeGate(caller, type, doc) ==
    With(getDocState(Env(Start), caller, type, Has(doc, "state"), StateOf(doc)), LAMBDA ds :
        [run |-> StepAccess(Hook(StepState(Start, ds), ds.def.onEntry, "hook:onEntry"),
                            caller, type, doc, "entry", "gate:entry"),
         doc |-> Spread(doc, ("curStateRead" :> CacheList(caller, ds.def.read, doc))
                             @@ ("curStateWrite" :> CacheList(caller, ds.def.write, doc)))])

\* _createDoc up to the insert: the run and the document to insert
createRun(caller, type, doc) ==
    With(StepAccess(Start, caller, type, doc, "entry", "gate:entry"), LAMBDA r1 :
    With(getDocState(Env(r1), caller, type, Has(doc, "state"), StateOf(doc)), LAMBDA ds :
        [run |-> Hook(StepState(r1, ds), ds.def.onEntry, "hook:onEntry"),
         doc |-> Spread(doc, ("curStateRead" :> CacheList(caller, ds.def.read, doc))
                             @@ ("curStateWrite" :> CacheList(caller, ds.def.write, doc)))]))

\* what the collection holds under an id before a call: <<doc>> or <<>>
StoredAt(type, id) == IF id \in DOMAIN docColl[type] THEN <<docColl[type][id]>> ELSE <<>>

\* getDocType: a type that is not a key of documents is refused with 400
getDocType(r, type) ==
    IF type \in DOMAIN documents THEN r ELSE Fail(r, 400, "InvalidType")

\* getDocCollectionName reads documents[type].collectionName: on a type that is
\* not a key of documents this is a property read on undefined, a TypeError
getDocCollectionName(r, type) ==
    IF type \in DOMAIN documents THEN r ELSE Fail(r, 500, "TypeError")

\* a createDoc that accepts every type
createDocRefused_Never(type) == FALSE

\* createDoc refuses a type that requires a caller-supplied id
createDocRefused(type) == documents[type].document_id_required
\* createDocById refuses a type that does not
createDocByIdRefused(type) == ~documents[type].document_id_required

\* insertOne + _getDoc on the outcome c of createRun; a duplicate _id makes the
\* insert fail
insertAndReturn(op, caller, type, body, c, id) ==
    /\ userGroupCache' = c.run.cache
    /\ IF c.run.status # 0
       THEN /\ res' = Result(op, caller, type, id, P1("body", body), c.run, StoredAt(type, id), <<>>)
            /\ UNCHANGED <<docColl, nextOid>>
       ELSE IF id \in DOMAIN docColl[type]
            THEN /\ res' = Result(op, caller, type, id, P1("body", body),
                                  Fail(Ev(c.run, "insertOne"), 500, "DuplicateKey"),
                                  StoredAt(type, id), <<>>)
                 /\ UNCHANGED <<docColl, nextOid>>
            ELSE LET stored == Spread(c.doc, ("_id" :> id))
                 IN  /\ docColl' = [docColl EXCEPT ![type] = (id :> stored) @@ @]
                     /\ nextOid' = IF Has(c.doc, "_id") THEN nextOid ELSE nextOid + 1
                     /\ res' = Result(op, caller, type, id, P1("body", body),
                                      Ev(c.run, "insertOne"), <<>>, <<toInfo(stored)>>)

createDoc(caller, type, body) ==
    /\ Idle
    /\ nextOid <= OidCap
    /\ StoredCount(docColl) < MaxDocs
    /\ IF getDocType(Start, type).status # 0
       THEN /\ res' = Result("createDoc", caller, type, Oids[nextOid], P1("body", body),
                             getDocType(Start, type), <<>>, <<>>)
            /\ UNCHANGED <<docColl, nextOid, userGroupCache>>
       ELSE IF createDocRefused(type)
       THEN /\ res' = Result("createDoc", caller, type, Oids[nextOid], P1("body", body),
                             Fail(Start, 401, "IdRequired"), <<>>, <<>>)
            /\ UNCHANGED <<docColl, nextOid, userGroupCache>>
       ELSE insertAndReturn("createDoc", caller, type, body,
                            createRun(caller, type, [k \in (DOMAIN body) \ {"_id", "id"} |-> body[k]]),
                            Oids[nextOid])
    /\ UNCHANGED <<userColl, attColl, forOfThrows, inflight, exported>>
    /\ adminWrote' = (adminWrote \/ isAdmin(Env(Start), caller).b)

createDocById(caller, type, id, body) ==
    /\ Idle
    /\ StoredCount(docColl) < MaxDocs
    /\ IF getDocType(Start, type).status # 0
       THEN /\ res' = Result("createDocById", caller, type, id, P1("body", body),
                             getDocType(Start, type), <<>>, <<>>)
            /\ UNCHANGED <<docColl, nextOid, userGroupCache>>
       ELSE IF createDocByIdRefused(type)
       THEN /\ res' = Result("createDocById", caller, type, id, P1("body", body),
                             Fail(Start, 401, "IdNotAllowed"), StoredAt(type, id), <<>>)
            /\ UNCHANGED <<docColl, nextOid, userGroupCache>>
       ELSE insertAndReturn("createDocById", caller, type, body,
                            createRun(caller, type, Spread(body, ("_id" :> id))), id)
    /\ UNCHANGED <<userColl, attColl, forOfThrows, inflight, exported>>
    /\ adminWrote' = (adminWrote \/ isAdmin(Env(Start), caller).b)

(***************************************************************************)
(* getDoc                                                                  *)
(***************************************************************************)
\* getDoc on the document read by _getDoc: the read gate, the state, onRead
readRun(caller, type, doc) ==
    With(StepAccess(Start, caller, type, doc, "read", "gate:read"), LAMBDA r1 :
    With(getDocState(Env(r1), caller, type, Has(doc, "state"), StateOf(doc)), LAMBDA ds :
        Hook(StepState(r1, ds), ds.def.onRead, "hook:onRead")))

\* the answer of getDoc on the outcome r of readRun
getDocReturn(caller, type, id, stored, r) ==
    /\ res' = Result("getDoc", caller, type, id, <<>>, r, <<stored>>,
                     IF r.status = 0 THEN <<toInfo(stored)>> ELSE <<>>)
    /\ userGroupCache' = r.cache

getDoc(caller, type, id) ==
    /\ Idle
    /\ IF getDocCollectionName(Start, type).status # 0
       THEN /\ res' = Result("getDoc", caller, type, id, <<>>, getDocCollectionName(Start, type), <<>>, <<>>)
            /\ UNCHANGED userGroupCache
       ELSE IF idFilter(id) \notin DOMAIN docColl[type]
       THEN /\ res' = Result("getDoc", caller, type, id, <<>>, Fail(Start, 404, "NotFound"), <<>>, <<>>)
            /\ UNCHANGED userGroupCache
       ELSE getDocReturn(caller, type, id, docColl[type][idFilter(id)],
                         readRun(caller, type, toInfo(docColl[type][idFilter(id)])))
    /\ UNCHANGED <<docColl, userColl, nextOid, attColl, forOfThrows, inflight, exported, adminWrote>>

(***************************************************************************)
(* runActionForDoc                                                         *)
(***************************************************************************)
\* Object.keys(doc.states)[0]: the state a type declares first
FirstState(type) ==
    CASE type = "testDocType" -> "requested"
      [] type = "profile" -> "created"
      [] type = "gated" -> "draft"

\* a runActionForDoc that reads the document without the read gate and onRead
actionRun_NoReadGate(caller, type, doc) ==
    With(getDocState(Env(Start), caller, type, Has(doc, "state"), StateOf(doc)), LAMBDA ds :
        Hook(StepState(Start, ds), ds.def.action, "hook:action"))

\* runActionForDoc on a stored document: getDoc (read gate, onRead), the state,
\* then its action hook when declared
actionRun(caller, type, doc) ==
    With(readRun(caller, type, doc), LAMBDA r1 :
    With(getDocState(Env(r1), caller, type, Has(doc, "state"), StateOf(doc)), LAMBDA ds :
        Hook(StepState(r1, ds), ds.def.action, "hook:action")))

\* the answer of runActionForDoc on the outcome r of its checks and hooks; what the
\* action hook returns is the application's, an absent hook returns nothing
runActionReturn(caller, type, id, args, r) ==
    /\ res' = Result("runActionForDoc", caller, type, id, args, r,
                     IF type \in DOMAIN docColl THEN StoredAt(type, idFilter(id)) ELSE <<>>, <<>>)
    /\ userGroupCache' = r.cache

runActionForDoc(caller, type, id, args) ==
    /\ Idle
    /\ IF id = "none"
       THEN IF getDocType(Start, type).status # 0
            THEN runActionReturn(caller, type, id, args, getDocType(Start, type))
            ELSE runActionReturn(caller, type, id, args,
                                 Hook(Start, documents[type].states[FirstState(type)].action, "hook:action"))
       ELSE IF getDocCollectionName(Start, type).status # 0
       THEN runActionReturn(caller, type, id, args, getDocCollectionName(Start, type))
       ELSE IF idFilter(id) \notin DOMAIN docColl[type]
       THEN runActionReturn(caller, type, id, args, Fail(Start, 404, "NotFound"))
       ELSE runActionReturn(caller, type, id, args,
                            actionRun(caller, type, toInfo(docColl[type][idFilter(id)])))
    /\ UNCHANGED <<docColl, userColl, nextOid, attColl, forOfThrows, inflight, exported, adminWrote>>

(***************************************************************************)
(* updateDoc                                                               *)
(***************************************************************************)
\* an entry hook that runs onReentry and then onEntry as well
entryHook_Both(r, sameState, newDocState) ==
    Hook(Hook(r, sameState /\ newDocState.onReentry, "hook:onReentry"),
         newDocState.onEntry, "hook:onEntry")

\* "Run code when entering new state": onReentry when the state is re-entered and
\* declares it, else onEntry when declared
entryHook(r, sameState, newDocState) ==
    IF sameState /\ newDocState.onReentry
    THEN Ev(r, "hook:onReentry")
    ELSE Hook(r, newDocState.onEntry, "hook:onEntry")

\* the transition check: a declared next state needs one of its groups, an
\* undeclared one is an error unless the caller is an admin
nextStateCheck(r, caller, type, doc, docState, newState, admin) ==
    IF ~docState.hasNextStates
    THEN \* docState.nextStates is undefined
         Fail(r, 500, "TypeError")
    ELSE IF newState \in DOMAIN docState.nextStates
    THEN StepAssert(r, caller, Static(docState.nextStates[newState].groups), type, doc, "gate:next")
    ELSE IF newState \in InheritedKeys
    THEN \* docState.nextStates[newState] is a member of Object.prototype, whose
         \* groups are undefined
         StepAssert(r, caller, NoGate, type, doc, "gate:next")
    ELSE IF ~admin THEN Fail(Ev(r, "check:next"), 500, "InvalidTransition")
         ELSE Ev(r, "check:next")

\* an updateDoc that runs the entry hook of the new state before the action of
\* the transition
updateRun_EntryHookFirst(caller, type, doc, args) ==
    With(getDocState(Env(Start), caller, type, Has(doc, "state"), StateOf(doc)), LAMBDA ds :
    With(StepState(Start, ds), LAMBDA r1 :
    With(isAdmin(Env(r1), caller), LAMBDA a :
    With(IF r1.status # 0 THEN r1 ELSE [r1 EXCEPT !.cache = a.cache, !.admin = a.admin], LAMBDA r2 :
    \* const newState = args.state; if (newState) ...
    With(IF PHas(args, "state") THEN PGet(args, "state") ELSE "", LAMBDA newState :
        IF r2.status # 0 THEN [run |-> r2, args |-> args]
        ELSE IF newState # ""
        THEN \* transition branch
             With(nextStateCheck(r2, caller, type, doc, ds.def, newState, a.b), LAMBDA t3 :
             With(IF ds.def.exit.kind # "undefined"
                  THEN StepAssert(t3, caller, ds.def.exit, type, doc, "gate:exit") ELSE t3, LAMBDA t4 :
             With(getDocState(Env(t4), caller, type, TRUE, newState), LAMBDA nds :
             With(IF hasNonStateKey(args)
                  THEN Hook(StepAccess(StepState(t4, nds), caller, type, doc, "write", "gate:write"),
                            ds.def.onWrite, "hook:onWrite")
                  ELSE StepState(t4, nds), LAMBDA t6 :
             With(IF nds.def.entry.kind # "undefined"
                  THEN StepAssert(t6, caller, nds.def.entry, type, doc, "gate:entry") ELSE t6, LAMBDA t7 :
                 [run |-> Hook(entryHook(t7, Has(doc, "state") /\ doc["state"] = newState, nds.def),
                               newState \in DOMAIN ds.def.nextStates
                                  /\ ds.def.nextStates[newState].action, "hook:action"),
                  args |-> PSet(PSet(args, "curStateRead", CacheList(caller, nds.def.read, doc)),
                                "curStateWrite", CacheList(caller, nds.def.write, doc))])))))
        ELSE IF hasNonStateKey(args)
        THEN \* non-state branch
             [run |-> Hook(StepAccess(r2, caller, type, doc, "write", "gate:write"),
                           ds.def.onWrite, "hook:onWrite"),
              args |-> PSet(PSet(args, "curStateRead", CacheList(caller, ds.def.read, doc)),
                            "curStateWrite", CacheList(caller, ds.def.write, doc))]
        ELSE [run |-> r2, args |-> args])))))

\* the checks and hooks of updateDoc on the document read by _getDoc;
\* returns the run and the payload with the cache fields added
updateRun(caller, type, doc, args) ==
    With(getDocState(Env(Start), caller, type, Has(doc, "state"), StateOf(doc)), LAMBDA ds :
    With(StepState(Start, ds), LAMBDA r1 :
    With(isAdmin(Env(r1), caller), LAMBDA a :
    With(IF r1.status # 0 THEN r1 ELSE [r1 EXCEPT !.cache = a.cache, !.admin = a.admin], LAMBDA r2 :
    \* const newState = args.state; if (newState) ...
    With(IF PHas(args, "state") THEN PGet(args, "state") ELSE "", LAMBDA newState :
        IF r2.status # 0 THEN [run |-> r2, args |-> args]
        ELSE IF newState # ""
        THEN \* transition branch
             With(nextStateCheck(r2, caller, type, doc, ds.def, newState, a.b), LAMBDA t3 :
             With(IF ds.def.exit.kind # "undefined"
                  THEN StepAssert(t3, caller, ds.def.exit, type, doc, "gate:exit") ELSE t3, LAMBDA t4 :
             With(getDocState(Env(t4), caller, type, TRUE, newState), LAMBDA nds :
             With(IF hasNonStateKey(args)
                  THEN Hook(StepAccess(StepState(t4, nds), caller, type, doc, "write", "gate:write"),
                            ds.def.onWrite, "hook:onWrite")
                  ELSE StepState(t4, nds), LAMBDA t6 :
             With(IF nds.def.entry.kind # "undefined"
                  THEN StepAssert(t6, caller, nds.def.entry, type, doc, "gate:entry") ELSE t6, LAMBDA t7 :
                 [run |-> entryHook(Hook(t7, newState \in DOMAIN ds.def.nextStates
                                             /\ ds.def.nextStates[newState].action, "hook:action"),
                                    Has(doc, "state") /\ doc["state"] = newState, nds.def),
                  args |-> PSet(PSet(args, "curStateRead", CacheList(caller, nds.def.read, doc)),
                                "curStateWrite", CacheList(caller, nds.def.write, doc))])))))
        ELSE IF hasNonStateKey(args)
        THEN \* non-state branch
             [run |-> Hook(StepAccess(r2, caller, type, doc, "write", "gate:write"),
                           ds.def.onWrite, "hook:onWrite"),
              args |-> PSet(PSet(args, "curStateRead", CacheList(caller, ds.def.read, doc)),
                            "curStateWrite", CacheList(caller, ds.def.write, doc))]
        ELSE [run |-> r2, args |-> args])))))

\* updateOne + _getDoc on the outcome u of updateRun
updateAndReturn(caller, type, id, args, stored, u) ==
    /\ userGroupCache' = u.run.cache
    /\ IF u.run.status # 0
       THEN /\ res' = Result("updateDoc", caller, type, id, args, u.run, <<stored>>, <<>>)
            /\ UNCHANGED docColl
       ELSE LET stored2 == ApplyUpdate(stored, toMongoUpdate(u.args))
            IN  /\ docColl' = [docColl EXCEPT ![type][idFilter(id)] = stored2]
                /\ res' = Result("updateDoc", caller, type, id, args, Ev(u.run, "updateOne"),
                                 <<stored>>, <<toInfo(stored2)>>)

updateDoc(caller, type, id, args) ==
    /\ Idle
    /\ IF getDocCollectionName(Start, type).status # 0
       THEN /\ res' = Result("updateDoc", caller, type, id, args, getDocCollectionName(Start, type), <<>>, <<>>)
            /\ UNCHANGED <<docColl, userGroupCache>>
       ELSE IF idFilter(id) \notin DOMAIN docColl[type]
       THEN /\ res' = Result("updateDoc", caller, type, id, args, Fail(Start, 404, "NotFound"), <<>>, <<>>)
            /\ UNCHANGED <<docColl, userGroupCache>>
       ELSE updateAndReturn(caller, type, id, args, docColl[type][idFilter(id)],
                            updateRun(caller, type, toInfo(docColl[type][idFilter(id)]), args))
    /\ UNCHANGED <<userColl, nextOid, attColl, forOfThrows, inflight, exported>>
    /\ adminWrote' = (adminWrote \/ isAdmin(Env(Start), caller).b)

(***************************************************************************)
(* deleteDoc                                                               *)
(***************************************************************************)
\* a deleteDoc that checks the write gate even when the state declares a delete gate
deleteRun_WriteGateOnly(caller, type, doc) ==
    With(getDocState(Env(Start), caller, type, Has(doc, "state"), StateOf(doc)), LAMBDA ds :
        Hook(StepAccess(StepState(Start, ds), caller, type, doc, "write", "gate:write"),
             ds.def.onDelete, "hook:onDelete"))

\* deleteDoc on the document read by _getDoc: the state, the delete gate or, when
\* the state declares none, the write gate, then onDelete
deleteRun(caller, type, doc) ==
    With(getDocState(Env(Start), caller, type, Has(doc, "state"), StateOf(doc)), LAMBDA ds :
        Hook(StepAccess(StepState(Start, ds), caller, type, doc,
                        IF ds.def.delete.kind # "undefined" THEN "delete" ELSE "write",
                        IF ds.def.delete.kind # "undefined" THEN "gate:delete" ELSE "gate:write"),
             ds.def.onDelete, "hook:onDelete"))

\* deleteOne and the answer on the outcome r of deleteRun
deleteAndReturn(caller, type, id, stored, r) ==
    /\ userGroupCache' = r.cache
    /\ IF r.status # 0
       THEN /\ res' = Result("deleteDoc", caller, type, id, <<>>, r, <<stored>>, <<>>)
            /\ UNCHANGED docColl
       ELSE /\ docColl' = [docColl EXCEPT ![type] = Without(@, idFilter(id))]
            /\ res' = Result("deleteDoc", caller, type, id, <<>>, Ev(r, "deleteOne"),
                             <<stored>>, <<toInfo(stored)>>)

deleteDoc(caller, type, id) ==
    /\ Idle
    /\ IF getDocCollectionName(Start, type).status # 0
       THEN /\ res' = Result("deleteDoc", caller, type, id, <<>>, getDocCollectionName(Start, type), <<>>, <<>>)
            /\ UNCHANGED <<docColl, userGroupCache>>
       ELSE IF idFilter(id) \notin DOMAIN docColl[type]
       THEN /\ res' = Result("deleteDoc", caller, type, id, <<>>, Fail(Start, 404, "NotFound"), <<>>, <<>>)
            /\ UNCHANGED <<docColl, userGroupCache>>
       ELSE deleteAndReturn(caller, type, id, docColl[type][idFilter(id)],
                            deleteRun(caller, type, toInfo(docColl[type][idFilter(id)])))
    /\ UNCHANGED <<userColl, nextOid, attColl, forOfThrows, inflight, exported>>
    /\ adminWrote' = (adminWrote \/ isAdmin(Env(Start), caller).b)

(***************************************************************************)
(* getDocs                                                                 *)
(***************************************************************************)
\* the order in which find() returns the documents of a collection
IdOrder ==
    <<"oid1", "oid2", "oid3", "oid4", "user1", "imp2", "str_oid1", "str_oid2", "str_oid3", "str_oid4">>

\* a match filter is a set of required field values; {} matches every document
Matches(stored, match) == \A k \in DOMAIN match : Has(stored, k) /\ stored[k] = match[k]
\* a projection is "all" or the set of fields to include (the _id always comes along)
Project(stored, projection) ==
    IF projection = {"*"} THEN stored
    ELSE [k \in (DOMAIN stored) \cap (projection \cup {"_id"}) |-> stored[k]]

\* the loop of getDocs over the documents found, from index i of IdOrder
RECURSIVE getDocsLoop(_, _, _, _, _, _, _)
getDocsLoop(caller, type, match, projection, i, r, rtn) ==
    IF i > Len(IdOrder) THEN [run |-> r, rtn |-> rtn]
    ELSE IF IdOrder[i] \notin DOMAIN docColl[type] \/ ~Matches(docColl[type][IdOrder[i]], match)
    THEN getDocsLoop(caller, type, match, projection, i + 1, r, rtn)
    ELSE With(toInfo(Project(docColl[type][IdOrder[i]], projection)), LAMBDA doc :
         With(hasAccess(Env(r), caller, type, doc, "read"), LAMBDA h :
         With([r EXCEPT !.cache = h.cache, !.admin = h.admin, !.trace = Append(@, "gate:read")],
              LAMBDA r1 :
             IF h.r = "yes"
             THEN With(getDocState(Env(r1), caller, type, Has(doc, "state"), StateOf(doc)),
                       LAMBDA ds :
                      getDocsLoop(caller, type, match, projection, i + 1,
                                  Hook(r1, ds.def.onRead, "hook:onRead"), Append(rtn, doc)))
             ELSE \* access denied, or an error that the loop catches and logs
                  getDocsLoop(caller, type, match, projection, i + 1, r1, rtn))))

MatchFilters == << EmptyObj, ("state" :> "requested") >>
Projections == << {"*"}, {"procurement"} >>

\* the answer of getDocs on the outcome g of getDocsLoop
getDocsReturn(caller, type, match, projection, g) ==
    /\ res' = Result("getDocs", caller, type, "", <<[key |-> "match", value |-> match],
                                                  [key |-> "projection", value |-> projection]>>,
                     g.run, <<>>, g.rtn)
    /\ userGroupCache' = g.run.cache

getDocs(caller, type, match, projection) ==
    /\ Idle
    /\ IF getDocCollectionName(Start, type).status # 0
       THEN getDocsReturn(caller, type, match, projection,
                          [run |-> getDocCollectionName(Start, type), rtn |-> <<>>])
       ELSE getDocsReturn(caller, type, match, projection,
                          getDocsLoop(caller, type, match, projection, 1, Start, <<>>))
    /\ UNCHANGED <<docColl, userColl, nextOid, attColl, forOfThrows, inflight, exported, adminWrote>>

(***************************************************************************)
(* updateUserGroup                                                         *)
(***************************************************************************)
\* an updateUserGroup that leaves the cached entry of the group in place
updateGroupAt_KeepCache(caller, id, members, a, i) ==
    LET coll2 == IF i = 0 THEN userColl ELSE [userColl EXCEPT ![i].members = members]
        ug == lookupUserGroup(a.cache, id)
        args == <<[key |-> "members", value |-> members]>>
    IN  IF ~a.b
        THEN /\ res' = Result("updateUserGroup", caller, "", id, args,
                              Fail(Start, 401, "NotAdmin"), <<>>, <<>>)
             /\ userGroupCache' = a.cache
             /\ UNCHANGED userColl
        ELSE /\ userColl' = coll2
             /\ userGroupCache' = ug.cache
             /\ res' = Result("updateUserGroup", caller, "", id, args,
                              IF ~ug.found THEN Fail(Start, 404, "NotFound") ELSE Start, <<>>, <<>>)

\* updateUserGroup given a, the answer of isAdmin, and i, the place of the group
\* in the collection (0 when there is none)
updateGroupAt(caller, id, members, a, i) ==
    LET coll2 == IF i = 0 THEN userColl ELSE [userColl EXCEPT ![i].members = members]
        \* delete this.userGroupCache[id], then getUserGroup reads it back
        cache2 == IF i = 0 THEN Without(a.cache, id) ELSE (id :> groupInfo(coll2[i])) @@ Without(a.cache, id)
        args == <<[key |-> "members", value |-> members]>>
    IN  IF ~a.b
        THEN /\ res' = Result("updateUserGroup", caller, "", id, args,
                              Fail(Start, 401, "NotAdmin"), <<>>, <<>>)
             /\ userGroupCache' = a.cache
             /\ UNCHANGED userColl
        ELSE /\ userColl' = coll2
             /\ userGroupCache' = cache2
             /\ res' = Result("updateUserGroup", caller, "", id, args,
                              IF i = 0 THEN Fail(Start, 404, "NotFound") ELSE Start, <<>>, <<>>)

updateUserGroup(caller, id, members) ==
    /\ Idle
    /\ updateGroupAt(caller, id, members, isAdmin(Env(Start), caller), FindGroupIdx(userColl, id))
    /\ UNCHANGED <<docColl, nextOid, attColl, forOfThrows, inflight, exported, adminWrote>>

(***************************************************************************)
(* createUserGroup, deleteUserGroup                                        *)
(***************************************************************************)
\* createUserGroup and importId add no record to a user collection that holds this
\* many; import adds none beyond this many and the configured groups
GroupCap == 3

\* the _id the store gives to a new record of the user collection
freshGroupOid(coll) ==
    GroupOids[CHOOSE i \in 1..Len(GroupOids) :
                 /\ \A j \in 1..Len(coll) : coll[j]._id # GroupOids[i]
                 /\ \A k \in 1..(i - 1) : \E j \in 1..Len(coll) : coll[j]._id = GroupOids[k]]

\* the body of a createUserGroup call
GroupPayload(g) ==
    <<[key |-> "id", value |-> g.id], [key |-> "members", value |-> g.members],
      [key |-> "deletable", value |-> g.deletable]>>

\* a createUserGroup that does not look for a stored group with the id
createGroupIdx_NoLookup(coll, id) == 0

\* createUserGroup: uc.findOne({ id: args.id })
createGroupIdx(coll, id) == FindGroupIdx(coll, id)

\* createUserGroup given a, the answer of isAdmin, and i, the place of a stored
\* group with the id (0 when there is none)
createGroupAt(caller, g, a, i) ==
    IF ~a.b
    THEN /\ res' = Result("createUserGroup", caller, "", g.id, GroupPayload(g),
                          Fail(Start, 401, "NotAdmin"), <<>>, <<>>)
         /\ userGroupCache' = a.cache
         /\ UNCHANGED userColl
    ELSE IF i # 0
    THEN /\ res' = Result("createUserGroup", caller, "", g.id, GroupPayload(g),
                          Fail(Start, 400, "AlreadyExists"), <<>>, <<>>)
         /\ userGroupCache' = a.cache
         /\ UNCHANGED userColl
    ELSE /\ Len(userColl) < GroupCap
         /\ userColl' = Append(userColl, StoredGroup(freshGroupOid(userColl), g))
         \* getUserGroup(ctx, args.id): the cached entry, else the record just stored
         /\ userGroupCache' = IF g.id \in DOMAIN a.cache THEN a.cache ELSE (g.id :> g) @@ a.cache
         /\ res' = Result("createUserGroup", caller, "", g.id, GroupPayload(g),
                          Ev(Start, "insertOne"), <<>>, <<>>)

createUserGroup(caller, g) ==
    /\ Idle
    /\ createGroupAt(caller, g, isAdmin(Env(Start), caller), createGroupIdx(userColl, g.id))
    /\ UNCHANGED <<docColl, nextOid, attColl, forOfThrows, inflight, exported, adminWrote>>

\* the sequence without its i-th element (all of it when i = 0)
RemoveAt(coll, i) ==
    IF i = 0 THEN coll ELSE SubSeq(coll, 1, i - 1) \o SubSeq(coll, i + 1, Len(coll))

\* deleteUserGroup given a, the answer of isAdmin, ug, the answer of getUserGroup,
\* and i, the place of the first stored group with the id (0 when there is none)
deleteGroupAt(caller, id, a, ug, i) ==
    IF ~a.b
    THEN /\ res' = Result("deleteUserGroup", caller, "", id, <<>>,
                          Fail(Start, 401, "NotAdmin"), <<>>, <<>>)
         /\ userGroupCache' = a.cache
         /\ UNCHANGED userColl
    ELSE IF ~ug.found
    THEN /\ res' = Result("deleteUserGroup", caller, "", id, <<>>,
                          Fail(Start, 404, "NotFound"), <<>>, <<>>)
         /\ userGroupCache' = ug.cache
         /\ UNCHANGED userColl
    ELSE IF ~ug.cache[id].deletable
    THEN /\ res' = Result("deleteUserGroup", caller, "", id, <<>>,
                          Fail(Start, 403, "Undeletable"), <<>>, <<>>)
         /\ userGroupCache' = ug.cache
         /\ UNCHANGED userColl
    ELSE /\ userColl' = RemoveAt(userColl, i)
         /\ userGroupCache' = Without(ug.cache, id)
         /\ res' = Result("deleteUserGroup", caller, "", id, <<>>,
                          Ev(Start, "deleteOne"), <<>>, <<>>)

deleteUserGroup(caller, id) ==
    /\ Idle
    /\ deleteGroupAt(caller, id, isAdmin(Env(Start), caller),
                     lookupUserGroup(isAdmin(Env(Start), caller).cache, id),
                     FindGroupIdx(userColl, id))
    /\ UNCHANGED <<docColl, nextOid, attColl, forOfThrows, inflight, exported, adminWrote>>

(***************************************************************************)
(* export, exportIds, exportId, import, importId, reset                    *)
(***************************************************************************)
\* the answer of a call that returns d
Dumped(r, d) == [r EXCEPT !.dump = d]

\* an admin operation refused by assertAdmin
notAdmin(op, caller, id, args) ==
    /\ res' = Result(op, caller, "", id, args, Fail(Start, 401, "NotAdmin"), <<>>, <<>>)
    /\ UNCHANGED <<docColl, userColl>>

\* the keys of DocMgrCreateArgs.documents, in their order
TypeOrder == <<"testDocType", "profile", "gated">>
\* allCollectionNames after the user collection: the attachment collection, then
\* the collection of each document type
allCollectionNames == <<AttachmentCollection>> \o TypeOrder
\* the collections other than the user collection, by name
AllDocs == (AttachmentCollection :> attColl) @@ docColl

\* c.find({}).toArray() on a document collection: its records in the order of find()
docEntries(coll) ==
    With(SelectSeq(IdOrder, LAMBDA id : id \in DOMAIN coll), LAMBDA ids :
        [i \in 1..Len(ids) |-> DocEntry(ids[i], coll[ids[i]])])

\* what export returns, as a body of import: per collection, the user collection
\* first, its records
exportPayload(docs, groups) ==
    << [coll |-> UserCollection,
        entries |-> [i \in 1..Len(groups) |-> GroupEntry(groups[i]._id, groupInfo(groups[i]))]] >>
    \o [i \in 1..Len(allCollectionNames) |->
           [coll |-> allCollectionNames[i], entries |-> docEntries(docs[allCollectionNames[i]])]]

\* the payload after JSON.stringify and JSON.parse, as it passes through the
\* admin controller: every _id that is an ObjectId has become a string
jsonPayload(payload) ==
    [c \in 1..Len(payload) |->
        [coll |-> payload[c].coll,
         entries |-> [i \in 1..Len(payload[c].entries) |->
             With(payload[c].entries[i], LAMBDA e :
                 IF ~e.hasId THEN e
                 ELSE IF payload[c].coll = UserCollection THEN GroupEntry(JsonId(e._id), e.group)
                 ELSE DocEntry(JsonId(e._id), e.doc))]]]

\* export given a, the answer of isAdmin; keep is whether the caller keeps the
\* answer
exportAs(caller, keep, a) ==
    /\ userGroupCache' = a.cache
    /\ IF ~a.b
       THEN /\ notAdmin("export", caller, "", <<>>)
            /\ UNCHANGED exported
       ELSE /\ res' = Dumped(Result("export", caller, "", "", <<>>, Start, <<>>, <<>>),
                             [EmptyDump EXCEPT !.docs = docColl, !.groups = userColl])
            /\ exported' = IF keep THEN exportPayload(AllDocs, userColl) ELSE exported
            /\ UNCHANGED <<docColl, userColl>>

export(caller, keep) ==
    /\ Idle
    /\ exportAs(caller, keep, isAdmin(Env(Start), caller))
    /\ UNCHANGED <<nextOid, attColl, forOfThrows, inflight, adminWrote>>

\* exportIds given a, the answer of isAdmin
exportIdsAs(caller, a) ==
    /\ userGroupCache' = a.cache
    /\ IF ~a.b
       THEN notAdmin("exportIds", caller, "", <<>>)
       ELSE /\ res' = Dumped(Result("exportIds", caller, "", "", <<>>, Start, <<>>, <<>>),
                             [EmptyDump EXCEPT !.docIds = [t \in Types |-> DOMAIN docColl[t]],
                                               !.groupIds = [i \in 1..Len(userColl) |-> userColl[i]._id]])
            /\ UNCHANGED <<docColl, userColl>>

exportIds(caller) ==
    /\ Idle
    /\ exportIdsAs(caller, isAdmin(Env(Start), caller))
    /\ UNCHANGED <<nextOid, attColl, forOfThrows, inflight, exported, adminWrote>>

\* c.findOne(this.idFilter(id)) on the collection cName
findById(cName, id) ==
    IF cName = UserCollection
    THEN [EmptyDump EXCEPT !.groups = SelectSeq(userColl, LAMBDA g : g._id = idFilter(id))]
    ELSE IF idFilter(id) \in DOMAIN docColl[cName]
         THEN [EmptyDump EXCEPT !.docs[cName] = (idFilter(id) :> docColl[cName][idFilter(id)])]
         ELSE EmptyDump

\* exportId given a, the answer of isAdmin
exportIdAs(caller, cName, id, a) ==
    /\ userGroupCache' = a.cache
    /\ IF ~a.b
       THEN notAdmin("exportId", caller, id, P1("collection", cName))
       ELSE /\ res' = Dumped(Result("exportId", caller, "", id, P1("collection", cName),
                                    Start, <<>>, <<>>),
                             findById(cName, id))
            /\ UNCHANGED <<docColl, userColl>>

exportId(caller, cName, id) ==
    /\ Idle
    /\ exportIdAs(caller, cName, id, isAdmin(Env(Start), caller))
    /\ UNCHANGED <<nextOid, attColl, forOfThrows, inflight, exported, adminWrote>>

\* the inner loop of import, from the i-th entry of the collection cName on;
\* st is the store and the run so far
RECURSIVE importEntries(_, _, _, _)
importEntries(cName, entries, i, st) ==
    IF i > Len(entries) \/ st.run.status # 0 THEN st
    ELSE IF ~entries[i].hasId THEN [st EXCEPT !.run = Fail(@, 400, "NoId")]
    ELSE IF cName = UserCollection
    THEN IF \E j \in 1..Len(st.groups) : st.groups[j]._id = idFilter(entries[i]._id)
         THEN importEntries(cName, entries, i + 1, st)
         ELSE IF \E j \in 1..Len(st.groups) : st.groups[j]._id = entries[i]._id
         THEN [st EXCEPT !.run = Fail(Ev(@, "insertOne"), 500, "DuplicateKey")]
         ELSE importEntries(cName, entries, i + 1,
                            [st EXCEPT !.groups = Append(@, StoredGroup(entries[i]._id, entries[i].group)),
                                       !.run = Ev(@, "insertOne")])
    ELSE IF idFilter(entries[i]._id) \in DOMAIN st.docs[cName]
         THEN importEntries(cName, entries, i + 1, st)
         ELSE IF entries[i]._id \in DOMAIN st.docs[cName]
         THEN [st EXCEPT !.run = Fail(Ev(@, "insertOne"), 500, "DuplicateKey")]
         ELSE importEntries(cName, entries, i + 1,
                            [st EXCEPT !.docs[cName] = (entries[i]._id :> entries[i].doc) @@ @,
                                       !.run = Ev(@, "insertOne")])

\* the outer loop of import, from the c-th collection of the payload on
RECURSIVE importFrom(_, _, _)
importFrom(payload, c, st) ==
    IF c > Len(payload) \/ st.run.status # 0 THEN st
    ELSE importFrom(payload, c + 1, importEntries(payload[c].coll, payload[c].entries, 1, st))

\* an import without assertAdmin
importAs_NoAdminCheck(caller, p, a, st) ==
    /\ userGroupCache' = a.cache
    /\ StoredCount(st.docs) <= MaxDocs
    /\ Len(st.groups) <= GroupCap + Len(ConfiguredGroups)
    /\ docColl' = [t \in Types |-> st.docs[t]]
    /\ attColl' = st.docs[AttachmentCollection]
    /\ userColl' = st.groups
    /\ res' = Result("import", caller, "", "", P1("payload", p), st.run, <<>>, <<>>)

\* import given a, the answer of isAdmin, and st, the outcome of its loops
importAs(caller, p, a, st) ==
    /\ userGroupCache' = a.cache
    /\ IF ~a.b
       THEN /\ notAdmin("import", caller, "", P1("payload", p))
            /\ UNCHANGED attColl
       ELSE /\ StoredCount(st.docs) <= MaxDocs
            /\ Len(st.groups) <= GroupCap + Len(ConfiguredGroups)
            /\ docColl' = [t \in Types |-> st.docs[t]]
            /\ attColl' = st.docs[AttachmentCollection]
            /\ userColl' = st.groups
            /\ res' = Result("import", caller, "", "", P1("payload", p), st.run, <<>>, <<>>)

\* the bodies of import: those of ImportPayloads, then the answer of export that
\* the caller has kept, passed on as it is (a call of DocMgr.import in the same
\* process), then that answer after it has passed through the admin controller
KeptPayload == Len(ImportPayloads) + 1
KeptJsonPayload == Len(ImportPayloads) + 2
payloadOf(p) ==
    IF p = KeptPayload THEN exported
    ELSE IF p = KeptJsonPayload THEN jsonPayload(exported)
    ELSE ImportPayloads[p]

import(caller, p) ==
    /\ Idle
    /\ p \in {KeptPayload, KeptJsonPayload} => exported # <<>>
    /\ importAs(caller, p, isAdmin(Env(Start), caller),
                importFrom(payloadOf(p), 1, [docs |-> AllDocs, groups |-> userColl, run |-> Start]))
    /\ UNCHANGED <<nextOid, forOfThrows, inflight, exported, adminWrote>>

\* bulkWrite([{ updateOne: { filter: idFilter(id), update: { $set: ele }, upsert: true } }])
\* on the user collection
upsertGroup(coll, id, g) ==
    IF \E j \in 1..Len(coll) : coll[j]._id = idFilter(id)
    THEN [j \in 1..Len(coll) |->
             IF coll[j]._id = idFilter(id) /\ \A k \in 1..(j - 1) : coll[k]._id # idFilter(id)
             THEN StoredGroup(coll[j]._id, g) ELSE coll[j]]
    ELSE Append(coll, StoredGroup(idFilter(id), g))

\* the same on a document collection
upsertDoc(coll, id, ele) ==
    IF idFilter(id) \in DOMAIN coll
    THEN [coll EXCEPT ![idFilter(id)] = Spread(@, ele)]
    ELSE (idFilter(id) :> Spread(ele, ("_id" :> idFilter(id)))) @@ coll

\* importId given a, the answer of isAdmin
importIdAs(caller, n, id, call, a) ==
    /\ userGroupCache' = a.cache
    /\ IF ~a.b
       THEN notAdmin("importId", caller, id, P1("call", n))
       ELSE /\ IF call.coll = UserCollection
               THEN /\ userColl' = upsertGroup(userColl, id, call.group)
                    /\ UNCHANGED docColl
               ELSE /\ docColl' = [docColl EXCEPT ![call.coll] = upsertDoc(@, id, Without(call.doc, "_id"))]
                    /\ UNCHANGED userColl
            /\ StoredCount(docColl') <= MaxDocs
            /\ Len(userColl') <= GroupCap
            /\ res' = Dumped(Result("importId", caller, "", id, P1("call", n),
                                    Ev(Start, "bulkWrite"), <<>>, <<>>),
                             IF call.coll = UserCollection
                             THEN [EmptyDump EXCEPT !.groups =
                                      SelectSeq(userColl', LAMBDA g : g._id = idFilter(id))]
                             ELSE [EmptyDump EXCEPT !.docs[call.coll] =
                                      (idFilter(id) :> docColl'[call.coll][idFilter(id)])])

importId(caller, n, id) ==
    /\ Idle
    /\ importIdAs(caller, n, id, ImportIdCalls[n], isAdmin(Env(Start), caller))
    /\ UNCHANGED <<nextOid, attColl, forOfThrows, inflight, exported, adminWrote>>

\* what a reset drops: the number of documents and of attachments, the ids of the
\* groups and those of the cache entries
Dropped ==
    [docs |-> StoredCount(docColl), atts |-> Cardinality(DOMAIN attColl),
     groups |-> {userColl[i].id : i \in 1..Len(userColl)}, cached |-> DOMAIN userGroupCache]

\* a reset that leaves the entries of the cache in place
resetAs_KeepsCache(caller, simpleInit, a) ==
    IF ~a.b
    THEN /\ notAdmin("reset", caller, "", P1("simpleInit", simpleInit))
         /\ userGroupCache' = a.cache
         /\ UNCHANGED attColl
    ELSE /\ docColl' = [t \in Types |-> NoDocs]
         /\ attColl' = NoDocs
         /\ userColl' = IF simpleInit THEN <<>> ELSE initGroups(userColl)
         /\ userGroupCache' = IF simpleInit THEN a.cache
                               ELSE [g \in {ConfiguredGroups[i] : i \in 1..Len(ConfiguredGroups)} |->
                                        groupInfo(InitGroups[FindGroupIdx(InitGroups, g)])] @@ a.cache
         /\ res' = Result("reset", caller, "", "", P1("simpleInit", simpleInit), Start,
                          <<Dropped>>, <<>>)

\* reset given a, the answer of isAdmin: every collection is dropped, the cache is
\* emptied, and init() creates the configured groups again unless simpleInit
resetAs(caller, simpleInit, a) ==
    IF ~a.b
    THEN /\ notAdmin("reset", caller, "", P1("simpleInit", simpleInit))
         /\ userGroupCache' = a.cache
         /\ UNCHANGED attColl
    ELSE /\ docColl' = [t \in Types |-> NoDocs]
         /\ attColl' = NoDocs
         /\ userColl' = IF simpleInit THEN <<>> ELSE initGroups(userColl)
         /\ userGroupCache' = IF simpleInit THEN [g \in {} |-> NoGroup]
                               ELSE [g \in {ConfiguredGroups[i] : i \in 1..Len(ConfiguredGroups)} |->
                                        groupInfo(InitGroups[FindGroupIdx(InitGroups, g)])]
         /\ res' = Result("reset", caller, "", "", P1("simpleInit", simpleInit), Start,
                          <<Dropped>>, <<>>)

reset(caller, simpleInit) ==
    /\ Idle
    /\ resetAs(caller, simpleInit, isAdmin(Env(Start), caller))
    /\ UNCHANGED <<nextOid, forOfThrows, inflight, exported, adminWrote>>

(***************************************************************************)
(* The attachment endpoints of AttachmentGroupController                   *)
(***************************************************************************)
\* the store hands out no id to an attachment beyond this many ids
AttCap == 3
\* the files a caller uploads: originalname and the sha256 of the content
Files == << [name |-> "a.txt", hash |-> "h1"], [name |-> "a.txt", hash |-> "h2"] >>

\* mgr.getDoc(ctx, { type, id }): the run of getDoc
getDocRun(caller, type, id) ==
    IF getDocCollectionName(Start, type).status # 0 THEN getDocCollectionName(Start, type)
    ELSE IF idFilter(id) \notin DOMAIN docColl[type] THEN Fail(Start, 404, "NotFound")
    ELSE readRun(caller, type, toInfo(docColl[type][idFilter(id)]))

\* doc.attachments || []
attachmentsOf(doc) == IF Has(doc, "attachments") THEN doc["attachments"] ELSE <<>>

\* getAttachments(ctx, { match: { doc: docId } }): the records of the attachment
\* collection whose doc field is docId, whatever their collection field
attachmentsFor(docId) ==
    With(SelectSeq(IdOrder, LAMBDA a : a \in DOMAIN attColl /\ attColl[a]["doc"] = docId),
         LAMBDA ids : [i \in 1..Len(ids) |-> Spread(attColl[ids[i]], ("_id" :> ids[i]))])

\* A promise that is rejected and that nobody awaits: Node either warns and goes
\* on, or ends the process.  The process that is started again has an empty
\* cache, and its init() looks up or creates each configured group.
restartGroups(coll) ==
    With(SelectSeq(ConfiguredGroups, LAMBDA g : FindGroupIdx(coll, g) = 0), LAMBDA missing :
        coll \o [i \in 1..Len(missing) |->
                    StoredGroup(SelectSeq(GroupOids, LAMBDA o : \A j \in 1..Len(coll) : coll[j]._id # o)[i],
                                Group(missing[i], <<>>, FALSE))])

ProcessExit(op, caller, type, id, args) ==
    /\ res' = Result(op, caller, type, id, args, Fail(Start, 1, "ProcessExit"), <<>>, <<>>)
    /\ userColl' = restartGroups(userColl)
    /\ userGroupCache' =
          [g \in {ConfiguredGroups[i] : i \in 1..Len(ConfiguredGroups)} |->
              groupInfo(restartGroups(userColl)[FindGroupIdx(restartGroups(userColl), g)])]

\* GET {collection}/{docId}/attachments, given g, the run of the getDoc that is
\* not awaited: the attachments of docId are returned whatever g is
getDocAttachmentsAs(caller, type, id, exits, g) ==
    IF g.status # 0 /\ exits
    THEN ProcessExit("getDocAttachments", caller, type, id, <<>>)
    ELSE /\ res' = Result("getDocAttachments", caller, type, id, <<>>, Ev(Start, "find"),
                          StoredAt(type, idFilter(id)), attachmentsFor(id))
         /\ userGroupCache' = g.cache
         /\ UNCHANGED userColl

getDocAttachments(caller, type, id, exits) ==
    /\ Idle
    /\ getDocAttachmentsAs(caller, type, id, exits, getDocRun(caller, type, id))
    /\ UNCHANGED <<docColl, attColl, nextOid, forOfThrows, inflight, exported, adminWrote>>

\* GET {collection}/{docId}/attachments/{attachmentId}: getAttachment looks the
\* attachment up by its id alone; its content is written to the response when it
\* is found, and 404 is set when it is not
getDocAttachmentAs(caller, type, id, attachmentId, exits, g) ==
    IF g.status # 0 /\ exits
    THEN ProcessExit("getDocAttachment", caller, type, id, P1("attachmentId", attachmentId))
    ELSE /\ res' = Result("getDocAttachment", caller, type, id, P1("attachmentId", attachmentId),
                          IF idFilter(attachmentId) \in DOMAIN attColl
                          THEN Ev(Start, "findOne") ELSE Fail(Ev(Start, "findOne"), 404, "NotFound"),
                          StoredAt(type, idFilter(id)),
                          IF idFilter(attachmentId) \in DOMAIN attColl
                          THEN <<Spread(attColl[idFilter(attachmentId)], ("_id" :> idFilter(attachmentId)))>>
                          ELSE <<>>)
         /\ userGroupCache' = g.cache
         /\ UNCHANGED userColl

getDocAttachment(caller, type, id, attachmentId, exits) ==
    /\ Idle
    /\ getDocAttachmentAs(caller, type, id, attachmentId, exits, getDocRun(caller, type, id))
    /\ UNCHANGED <<docColl, attColl, nextOid, forOfThrows, inflight, exported, adminWrote>>

\* the index of the first entry of attachments that satisfies Test, 0 when none does
FirstAtt(atts, Test(_)) ==
    IF \E i \in 1..Len(atts) : Test(atts[i])
    THEN CHOOSE i \in 1..Len(atts) : Test(atts[i]) /\ \A j \in 1..(i - 1) : ~Test(atts[j])
    ELSE 0

\* attachments.splice(i, 1)
Splice(atts, i) == [j \in 1..(Len(atts) - 1) |-> IF j < i THEN atts[j] ELSE atts[j + 1]]

\* DELETE {collection}/{docId}/attachments/{attachmentId}: the attachment is
\* deleted first; then g, the run of the awaited getDoc, decides the answer; u is
\* the run of the updateDoc that is not awaited
deleteDocAttachmentsAs(caller, type, id, attachmentId, exits, g, i, u) ==
    /\ attColl' = Without(attColl, idFilter(attachmentId))
    /\ IF g.status # 0
       THEN /\ res' = Result("deleteDocAttachments", caller, type, id,
                             P1("attachmentId", attachmentId), g, StoredAt(type, idFilter(id)), <<>>)
            /\ userGroupCache' = g.cache
            /\ UNCHANGED <<docColl, userColl>>
       ELSE IF i = 0
       THEN /\ res' = Result("deleteDocAttachments", caller, type, id,
                             P1("attachmentId", attachmentId), Fail(g, 404, "NotFound"),
                             StoredAt(type, idFilter(id)), <<>>)
            /\ userGroupCache' = g.cache
            /\ UNCHANGED <<docColl, userColl>>
       ELSE IF u.run.status # 0 /\ exits
       THEN /\ ProcessExit("deleteDocAttachments", caller, type, id, P1("attachmentId", attachmentId))
            /\ UNCHANGED docColl
       ELSE /\ res' = Result("deleteDocAttachments", caller, type, id,
                             P1("attachmentId", attachmentId), g, StoredAt(type, idFilter(id)),
                             Splice(attachmentsOf(toInfo(docColl[type][idFilter(id)])), i))
            /\ userGroupCache' = u.run.cache @@ g.cache
            /\ docColl' = IF u.run.status # 0 THEN docColl
                          ELSE [docColl EXCEPT ![type][idFilter(id)] =
                                   ApplyUpdate(@, toMongoUpdate(u.args))]
            /\ UNCHANGED userColl

\* the part of deleteDocAttachments that follows a getDoc that succeeded
deleteDocAttachmentsOn(caller, type, id, attachmentId, exits, g, doc) ==
    With(FirstAtt(attachmentsOf(doc), LAMBDA a : idFilter(a.id) = idFilter(attachmentId)), LAMBDA i :
        deleteDocAttachmentsAs(caller, type, id, attachmentId, exits, g, i,
            IF i = 0 THEN [run |-> g, args |-> <<>>]
            ELSE updateRun(caller, type, doc, P1("attachments", Splice(attachmentsOf(doc), i)))))

deleteDocAttachments(caller, type, id, attachmentId, exits) ==
    /\ Idle
    /\ IF getDocRun(caller, type, id).status # 0
       THEN deleteDocAttachmentsAs(caller, type, id, attachmentId, exits,
                                   getDocRun(caller, type, id), 0, [run |-> Start, args |-> <<>>])
       ELSE deleteDocAttachmentsOn(caller, type, id, attachmentId, exits,
                                   getDocRun(caller, type, id), toInfo(docColl[type][idFilter(id)]))
    /\ adminWrote' = (adminWrote \/ isAdmin(Env(Start), caller).b)
    /\ UNCHANGED <<nextOid, forOfThrows, inflight, exported>>

\* the answer of createDocAttachments after the attachment collection has become
\* atts2 and attachments has become list, given u, the run of the updateDoc
\* that is awaited
createDocAttachmentsReturn(caller, type, id, file, g, atts2, list, u) ==
    /\ attColl' = atts2
    /\ userGroupCache' = u.run.cache @@ g.cache
    /\ IF u.run.status # 0
       THEN /\ res' = Result("createDocAttachments", caller, type, id, P1("file", file), u.run,
                             StoredAt(type, idFilter(id)), <<>>)
            /\ UNCHANGED docColl
       ELSE /\ res' = Result("createDocAttachments", caller, type, id, P1("file", file),
                             Ev(u.run, "updateOne"), StoredAt(type, idFilter(id)), list)
            /\ docColl' = [docColl EXCEPT ![type][idFilter(id)] = ApplyUpdate(@, toMongoUpdate(u.args))]

\* PUT {collection}/{docId}/attachments/ after a getDoc that succeeded with run g
\* and document doc; i is the index of the attachment that has the name of the file
createDocAttachmentsOn(caller, type, id, file, g, doc, i) ==
    IF i # 0 /\ attachmentsOf(doc)[i].hash = file.hash
    THEN \* Uploaded identical file
         /\ res' = Result("createDocAttachments", caller, type, id, P1("file", file), g,
                          StoredAt(type, idFilter(id)), attachmentsOf(doc))
         /\ userGroupCache' = g.cache
         /\ UNCHANGED <<docColl, attColl, nextOid>>
    ELSE IF i # 0 /\ idFilter(attachmentsOf(doc)[i].id) \notin DOMAIN attColl
    THEN \* updateAttachment: updateOne matches nothing and getAttachment throws
         /\ res' = Result("createDocAttachments", caller, type, id, P1("file", file),
                          Fail(g, 404, "NotFound"), StoredAt(type, idFilter(id)), <<>>)
         /\ userGroupCache' = g.cache
         /\ UNCHANGED <<docColl, attColl, nextOid>>
    ELSE IF i # 0
    THEN /\ With([attachmentsOf(doc) EXCEPT ![i].hash = file.hash], LAMBDA list :
               createDocAttachmentsReturn(caller, type, id, file, g,
                   [attColl EXCEPT ![idFilter(list[i].id)] = Spread(@, ("hash" :> file.hash))],
                   list, updateRun(caller, type, doc, P1("attachments", list))))
         /\ UNCHANGED nextOid
    ELSE /\ nextOid <= AttCap /\ nextOid <= Len(Oids)
         /\ With(Append(attachmentsOf(doc), [id |-> Oids[nextOid], name |-> file.name, hash |-> file.hash]),
                 LAMBDA list :
               createDocAttachmentsReturn(caller, type, id, file, g,
                   (Oids[nextOid] :> (("collection" :> type) @@ ("doc" :> id) @@ ("name" :> file.name)
                                         @@ ("hash" :> file.hash))) @@ attColl,
                   list, updateRun(caller, type, doc, P1("attachments", list))))
         /\ nextOid' = nextOid + 1

createDocAttachments(caller, type, id, file) ==
    /\ Idle
    /\ IF getDocRun(caller, type, id).status # 0
       THEN /\ res' = Result("createDocAttachments", caller, type, id, P1("file", file),
                             getDocRun(caller, type, id), StoredAt(type, idFilter(id)), <<>>)
            /\ userGroupCache' = getDocRun(caller, type, id).cache
            /\ UNCHANGED <<docColl, attColl, nextOid>>
       ELSE With(toInfo(docColl[type][idFilter(id)]), LAMBDA doc :
                createDocAttachmentsOn(caller, type, id, file, getDocRun(caller, type, id), doc,
                    FirstAtt(attachmentsOf(doc), LAMBDA a : a.name = file.name)))
    /\ adminWrote' = (adminWrote \/ isAdmin(Env(Start), caller).b)
    /\ UNCHANGED <<userColl, forOfThrows, inflight, exported>>

(***************************************************************************)
(* updateDoc as the two steps between which other calls run: every await   *)
(* of updateDoc before updateOne reads, and only updateOne writes          *)
(***************************************************************************)
\* the first step, given u, the outcome of updateRun on the document as it is
\* read: a call that fails a check is answered, one that passes all of them is in
\* flight
updateDocReadAs(caller, type, id, args, stored, u) ==
    /\ userGroupCache' = u.run.cache
    /\ IF u.run.status # 0
       THEN /\ Idle
            /\ res' = Result("updateDoc", caller, type, id, args, u.run, <<stored>>, <<>>)
            /\ UNCHANGED inflight
       ELSE /\ inflight' = (caller.id :> [caller |-> caller, type |-> type, id |-> id, args |-> args,
                                           stored |-> stored, u |-> u]) @@ inflight
            /\ UNCHANGED res

updateDocRead(caller, type, id, args) ==
    /\ caller.id \notin DOMAIN inflight
    /\ getDocCollectionName(Start, type).status = 0
    /\ idFilter(id) \in DOMAIN docColl[type]
    /\ updateDocReadAs(caller, type, id, args, docColl[type][idFilter(id)],
                       updateRun(caller, type, toInfo(docColl[type][idFilter(id)]), args))
    /\ UNCHANGED <<docColl, userColl, attColl, nextOid, forOfThrows, exported, adminWrote>>

\* a second step that refuses to write when the document is no longer the one
\* that was read
updateDocWriteAs_Locked(p, cur) ==
    IF cur = <<>> \/ cur[1] # p.stored
    THEN /\ res' = Result("updateDoc", p.caller, p.type, p.id, p.args, Fail(p.u.run, 409, "Conflict"),
                          <<p.stored>> \o cur, <<>>)
         /\ UNCHANGED docColl
    ELSE /\ docColl' = [docColl EXCEPT ![p.type][idFilter(p.id)] =
                           ApplyUpdate(@, toMongoUpdate(p.u.args))]
         /\ res' = Result("updateDoc", p.caller, p.type, p.id, p.args, Ev(p.u.run, "updateOne"),
                          <<p.stored>> \o cur, <<toInfo(docColl'[p.type][idFilter(p.id)])>>)

\* the second step of the call p, on cur, the document as it is stored now:
\* updateOne(idFilter(id), toMongoUpdate(args)) and _getDoc.  pre of the answer
\* is the document as the call read it, followed by cur
updateDocWriteAs(p, cur) ==
    IF cur = <<>>
    THEN /\ res' = Result("updateDoc", p.caller, p.type, p.id, p.args,
                          Fail(Ev(p.u.run, "updateOne"), 404, "NotFound"), <<p.stored>>, <<>>)
         /\ UNCHANGED docColl
    ELSE /\ docColl' = [docColl EXCEPT ![p.type][idFilter(p.id)] =
                           ApplyUpdate(@, toMongoUpdate(p.u.args))]
         /\ res' = Result("updateDoc", p.caller, p.type, p.id, p.args, Ev(p.u.run, "updateOne"),
                          <<p.stored>> \o cur, <<toInfo(docColl'[p.type][idFilter(p.id)])>>)

updateDocWrite(c) ==
    /\ Idle
    /\ c \in DOMAIN inflight
    /\ updateDocWriteAs(inflight[c], StoredAt(inflight[c].type, idFilter(inflight[c].id)))
    /\ inflight' = [k \in (DOMAIN inflight) \ {c} |-> inflight[k]]
    /\ adminWrote' = (adminWrote \/ isAdmin(Env(Start), inflight[c].caller).b)
    /\ UNCHANGED <<userColl, attColl, userGroupCache, nextOid, forOfThrows, exported>>

\* the transport layer sends the response of the call
Respond ==
    /\ ~Idle
    /\ res' = IdleRes
    /\ UNCHANGED <<docColl, userColl, userGroupCache, nextOid, attColl, forOfThrows, inflight, exported, adminWrote>>

\* an id under which nothing is stored
MissingId == "nodoc"
\* the ids a call names: those stored in the collection, and one that is not
IdsOf(t) == (IF t \in DOMAIN docColl THEN DOMAIN docColl[t] ELSE {}) \cup {MissingId}
\* the payloads tried on an id: all of them on a stored document, one on a missing one
PayloadIdx(t, id) == IF id \in IdsOf(t) \ {MissingId} THEN 1..Len(UpdatePayloads(t)) ELSE {1}

\* the ids an importId call names: one of a record that is not stored, and, in a
\* document collection, those of the stored documents
ImportIds(cName) ==
    IF cName = UserCollection THEN {"imp1"} ELSE (DOMAIN docColl[cName]) \cup {"imp2"}

Next ==
    \/ \E c \in UserIds, t \in CallTypes : \E i \in 1..Len(CreateBodies(t)) :
          createDoc(Users[c], t, CreateBodies(t)[i])
    \/ \E c \in UserIds, t \in CallTypes, id \in CallerIds : \E i \in 1..Len(CreateBodies(t)) :
          createDocById(Users[c], t, id, CreateBodies(t)[i])
    \/ \E c \in UserIds, t \in CallTypes : \E id \in IdsOf(t) : getDoc(Users[c], t, id)
    \/ \E c \in UserIds, t \in CallTypes : \E id \in IdsOf(t) : \E i \in PayloadIdx(t, id) :
          updateDoc(Users[c], t, id, UpdatePayloads(t)[i])
    \/ \E c \in UserIds, t \in CallTypes : \E id \in IdsOf(t) : deleteDoc(Users[c], t, id)
    \/ \E c \in UserIds, t \in CallTypes : \E id \in IdsOf(t) \cup {"none"} :
          runActionForDoc(Users[c], t, id, ActionArgs)
    \/ \E c \in UserIds, t \in CallTypes, m \in 1..Len(MatchFilters), p \in 1..Len(Projections) :
          getDocs(Users[c], t, MatchFilters[m], Projections[p])
    \/ \E c \in UserIds, g \in {"management", "nogroup"}, m \in 1..Len(MemberLists) :
          updateUserGroup(Users[c], g, MemberLists[m])
    \/ Respond

Spec == Init /\ [][Next]_vars

\* the callers of the administrative operations
AdminCallers == {"admin1", "manager1", "user1"}

\* The whole program: the operations on documents, each on few calls, and the
\* operations on user groups and on the whole store.
NextAdmin ==
    \/ createDoc(Users["user1"], "testDocType", CreateBodies("testDocType")[1])
    \/ createDocById(Users["user1"], "profile", "user1", CreateBodies("profile")[1])
    \/ \E c \in {"manager1", "user1"} : \E id \in IdsOf("testDocType") :
          getDoc(Users[c], "testDocType", id)
    \/ \E id \in IdsOf("testDocType") :
          updateDoc(Users["user1"], "testDocType", id, UpdatePayloads("testDocType")[1])
    \/ \E id \in IdsOf("testDocType") : deleteDoc(Users["user1"], "testDocType", id)
    \/ \E id \in IdsOf("testDocType") :
          runActionForDoc(Users["user1"], "testDocType", id, ActionArgs)
    \/ getDocs(Users["manager1"], "testDocType", MatchFilters[1], Projections[1])
    \/ \E c \in AdminCallers, m \in 1..Len(MemberLists) :
          updateUserGroup(Users[c], "management", MemberLists[m])
    \/ \E c \in AdminCallers, i \in 1..Len(CreateGroups) : createUserGroup(Users[c], CreateGroups[i])
    \/ \E c \in AdminCallers, g \in DeleteGroupIds : deleteUserGroup(Users[c], g)
    \/ \E c \in AdminCallers : export(Users[c], FALSE)
    \/ \E c \in AdminCallers : exportIds(Users[c])
    \/ \E c \in AdminCallers, n \in 1..Len(ExportIdCalls) :
          exportId(Users[c], ExportIdCalls[n].coll, ExportIdCalls[n].id)
    \/ \E c \in AdminCallers, p \in 1..Len(ImportPayloads) : import(Users[c], p)
    \/ \E c \in AdminCallers, n \in 1..Len(ImportIdCalls) : \E id \in ImportIds(ImportIdCalls[n].coll) :
          importId(Users[c], n, id)
    \/ \E c \in AdminCallers, simpleInit \in BOOLEAN : reset(Users[c], simpleInit)
    \/ Respond

SpecAdmin == Init /\ [][NextAdmin]_vars

\* Export, reset and import of what was exported, on the stores that createDoc,
\* createDocById and updateDoc build.
NextRoundTrip ==
    \/ \E i \in 1..2 : createDoc(Users["user1"], "testDocType", CreateBodies("testDocType")[i])
    \/ createDocById(Users["user1"], "profile", "user1", CreateBodies("profile")[1])
    \/ \E id \in IdsOf("testDocType") \ {MissingId} :
          updateDoc(Users["admin1"], "testDocType", id, UpdatePayloads("testDocType")[1])
    \/ \E id \in IdsOf("testDocType") : getDoc(Users["admin1"], "testDocType", id)
    \/ \E c \in {"admin1", "user1"} : export(Users[c], TRUE)
    \/ \E simpleInit \in BOOLEAN : reset(Users["admin1"], simpleInit)
    \/ \E p \in {KeptPayload, KeptJsonPayload} : import(Users["admin1"], p)
    \/ Respond

SpecRoundTrip == Init /\ [][NextRoundTrip]_vars

\* The attachment endpoints on a document that user1 creates and that admin1 moves
\* to a state in which user1 may read but not write, with the group operations and
\* the reset of an admin.
\* the ids of attachments a call names: those stored, those a document lists, and
\* one that is neither
AttIdsOf(t, id) ==
    (DOMAIN attColl)
    \cup (IF idFilter(id) \in DOMAIN docColl[t]
          THEN With(attachmentsOf(docColl[t][idFilter(id)]), LAMBDA l : {l[i].id : i \in 1..Len(l)})
          ELSE {})
    \cup {"noatt"}

NextAttach ==
    \/ createDoc(Users["user1"], "testDocType", CreateBodies("testDocType")[1])
    \/ \E id \in IdsOf("testDocType") \ {MissingId} :
          updateDoc(Users["admin1"], "testDocType", id, UpdatePayloads("testDocType")[1])
    \/ \E c \in {"user1", "guest1"}, id \in IdsOf("testDocType") : \E i \in 1..Len(Files) :
          createDocAttachments(Users[c], "testDocType", id, Files[i])
    \/ \E c \in {"user1", "guest1"}, id \in IdsOf("testDocType"), exits \in BOOLEAN :
          getDocAttachments(Users[c], "testDocType", id, exits)
    \/ \E c \in {"user1", "guest1"}, id \in IdsOf("testDocType"), exits \in BOOLEAN :
          \E a \in AttIdsOf("testDocType", id) : getDocAttachment(Users[c], "testDocType", id, a, exits)
    \/ \E c \in {"user1", "guest1"}, id \in IdsOf("testDocType"), exits \in BOOLEAN :
          \E a \in AttIdsOf("testDocType", id) : deleteDocAttachments(Users[c], "testDocType", id, a, exits)
    \/ createUserGroup(Users["admin1"], CreateGroups[1])
    \/ \E simpleInit \in BOOLEAN : reset(Users["admin1"], simpleInit)
    \/ Respond

SpecAttach == Init /\ [][NextAttach]_vars

\* Calls of updateDoc that run at the same time, on a document of which user1 is
\* in the field 'procurement', after admin1 has made manager1 a member of
\* 'management'.
\* the payloads of the calls of updateDoc that run at the same time
RacePayloads ==
    << P1("state", "approved"), P1("state", "closed"), P1("state", "purchased"),
       P1("procurement", Arr(<<U1>>)) >>

NextRace ==
    \/ createDoc(Users["user1"], "testDocType", CreateBodies("testDocType")[2])
    \/ updateUserGroup(Users["admin1"], "management", MemberLists[2])
    \/ \E c \in {"manager1", "user1", "guest1"}, id \in IdsOf("testDocType") \ {MissingId} :
          \E i \in 1..Len(RacePayloads) : updateDocRead(Users[c], "testDocType", id, RacePayloads[i])
    \/ \E c \in {"manager1", "user1", "guest1"} : updateDocWrite(c)
    \/ \E c \in {"manager1", "user1"}, id \in IdsOf("testDocType") : deleteDoc(Users[c], "testDocType", id)
    \/ Respond

SpecRace == Init /\ [][NextRace]_vars

\* The operations on documents whose state is declared, is not declared, is the
\* name of a member that every object inherits, or is absent.
\* the bodies of createDoc
StateBodies ==
    << ("state" :> "requested"), ("state" :> "bogus"), ("state" :> "constructor"), EmptyObj >>
\* the payloads of updateDoc
StatePayloads == << P1("state", "constructor"), P1("state", "approved"), P1("procurement", Arr(<<U1>>)) >>

NextStates ==
    \/ \E c \in {"user1", "admin1"} : \E i \in 1..Len(StateBodies) :
          createDoc(Users[c], "testDocType", StateBodies[i])
    \/ createDocById(Users["user1"], "profile", "user1", EmptyObj)
    \/ \E c \in {"user1", "guest1", "admin1"}, t \in {"testDocType", "profile"} : \E id \in IdsOf(t) :
          getDoc(Users[c], t, id)
    \/ \E c \in {"user1", "guest1"}, id \in IdsOf("testDocType") \ {MissingId} :
          \E i \in 1..Len(StatePayloads) : updateDoc(Users[c], "testDocType", id, StatePayloads[i])
    \/ \E c \in {"guest1", "admin1"}, id \in IdsOf("testDocType") \ {MissingId} :
          deleteDoc(Users[c], "testDocType", id)
    \/ Respond

SpecStates == Init /\ [][NextStates]_vars

(***************************************************************************)
(* Properties.  res is the call being answered: its caller, its arguments, *)
(* the stored document before the call (pre), the trace of the gate        *)
(* checks, hooks and storage writes it made, and its outcome.              *)
(***************************************************************************)
DocOps == {"createDoc", "createDocById", "getDoc", "updateDoc", "deleteDoc", "getDocs"}
\* the call being answered names a type of the registry (a call on any other type
\* ends at the type lookup)
OnDeclaredType == res.type \in DOMAIN documents
\* the caller of the call being answered is an administrator
CallerIsAdmin == isAdmin([cache |-> userGroupCache, admin |-> "unset"], res.caller).b
\* the stored document before and after the call
Before == res.pre[1]
After == docColl[res.type][res.id]
StillStored == res.id \in DOMAIN docColl[res.type]
\* the declared state definition of a document: <<def>>, or <<>> when it has none
Declared(type, doc) ==
    LET states == documents[type].states
    IN  IF Has(doc, "state")
        THEN IF SplitDollar(doc["state"]) \in DOMAIN states
             THEN <<states[SplitDollar(doc["state"])]>> ELSE <<>>
        ELSE IF Cardinality(DOMAIN states) = 1
             THEN <<states[CHOOSE n \in DOMAIN states : TRUE]>> ELSE <<>>
\* the caller is a member of one of the groups, for the document
MemberOfAny(groups, doc) ==
    memberLoop(userGroupCache, res.caller, groups, 1, res.type, doc, TRUE).r = "yes"
\* number of times an event occurs in the trace of the call
Count(ev) == Cardinality({i \in 1..Len(res.trace) : res.trace[i] = ev})
\* the call was refused by the check that made the event ev
DeniedAt(ev) ==
    /\ res.status = 401 /\ res.kind = "AccessDenied"
    /\ Len(res.trace) > 0 /\ res.trace[Len(res.trace)] = ev
\* an updateDoc on a stored document whose payload is exactly {state: T}
StateOnlyUpdate ==
    /\ res.op = "updateDoc" /\ res.pre # <<>>
    /\ Len(res.args) = 1 /\ res.args[1].key = "state"

\* C1 (as stated): for a non-admin, updateDoc with {state: T} on a document in state S
\* succeeds only if T is a key of S.nextStates, and otherwise fails as an invalid
\* transition leaving the document unchanged; for an admin the undeclared transition
\* succeeds; no non-admin update moves a document out of a state without nextStates.
C1_DeclaredTransitionsOnly ==
    (res.op = "updateDoc" /\ res.pre # <<>> /\ Declared(res.type, toInfo(Before)) # <<>>) =>
        LET S == Declared(res.type, toInfo(Before))[1]
        IN  /\ (StateOnlyUpdate /\ res.args[1].value \notin DOMAIN S.nextStates) =>
                  IF CallerIsAdmin
                  THEN res.status = 200
                  ELSE res.kind = "InvalidTransition" /\ After = Before
            /\ (~CallerIsAdmin /\ DOMAIN S.nextStates = {} /\ Has(Before, "state")) =>
                  (StillStored /\ Has(After, "state") /\ After["state"] = Before["state"])

\* C2 (as stated): when T is declared in S.nextStates and the caller is neither an
\* admin nor a member of any group of S.nextStates[T].groups, updateDoc with {state: T}
\* fails with AccessDenied (401) and the document keeps its state and fields.
C2_TransitionGroupsDenied ==
    (StateOnlyUpdate /\ Declared(res.type, toInfo(Before)) # <<>>) =>
        LET S == Declared(res.type, toInfo(Before))[1]
            T == res.args[1].value
        IN  (/\ T \in DOMAIN S.nextStates
             /\ ~CallerIsAdmin
             /\ ~MemberOfAny(S.nextStates[T].groups, toInfo(Before)))
            => (res.status = 401 /\ res.kind = "AccessDenied" /\ After = Before)

\* the state definition the call's document is in (stored document, or the body of a
\* create), and the one an update asks to enter: <<def>> or <<>>
CurState == Declared(res.type, toInfo(Before))
TargetState == Declared(res.type, ("state" :> PGet(res.args, "state")))
\* the document _createDoc checks: the body, with the caller's id as _id for createDocById
CreatedDoc ==
    IF res.op = "createDocById"
    THEN Spread(res.args[1].value, ("_id" :> res.id))
    ELSE [k \in (DOMAIN res.args[1].value) \ {"_id", "id"} |-> res.args[1].value[k]]
BodyState == Declared(res.type, CreatedDoc)
\* a call that reaches _createDoc
IsCreate ==
    /\ OnDeclaredType
    /\ \/ res.op = "createDoc" /\ ~documents[res.type].document_id_required
       \/ res.op = "createDocById" /\ documents[res.type].document_id_required
\* an updateDoc on a stored document in a declared state
IsUpdate == res.op = "updateDoc" /\ res.pre # <<>> /\ CurState # <<>>
\* ... that asks for a transition: its payload has a non-empty state
IsTransition == IsUpdate /\ PHas(res.args, "state") /\ PGet(res.args, "state") # ""
\* a gate that is absent, and a gate that resolves to the empty list
Undefined(gate) == gate.kind = "undefined"
Empty(gate, doc) == gate.kind # "undefined" /\ getInUserGroups(res.caller, gate, doc) = <<>>

\* C3, the part about the entry, read, write and exit gates: an absent gate refuses
\* nobody, and a gate that resolves to [] lets no non-admin call succeed
C3_EntryReadWriteExit ==
    /\ (res.op = "getDoc" /\ res.pre # <<>> /\ CurState # <<>>) =>
          /\ Undefined(CurState[1].read) => ~DeniedAt("gate:read")
          /\ (Empty(CurState[1].read, toInfo(Before)) /\ ~CallerIsAdmin) => res.status # 200
    /\ IsUpdate =>
          /\ Undefined(CurState[1].write) => ~DeniedAt("gate:write")
          /\ (hasNonStateKey(res.args) /\ Empty(CurState[1].write, toInfo(Before))
                 /\ ~CallerIsAdmin) => res.status # 200
    /\ IsTransition =>
          /\ Undefined(CurState[1].exit) => ~DeniedAt("gate:exit")
          /\ (Empty(CurState[1].exit, toInfo(Before)) /\ ~CallerIsAdmin) => res.status # 200
    /\ (IsTransition /\ TargetState # <<>>) =>
          /\ Undefined(TargetState[1].entry) => ~DeniedAt("gate:entry")
          /\ (Empty(TargetState[1].entry, toInfo(Before)) /\ ~CallerIsAdmin) => res.status # 200
    /\ (IsCreate /\ BodyState # <<>>) =>
          /\ Undefined(BodyState[1].entry) => ~DeniedAt("gate:entry")
          /\ (Empty(BodyState[1].entry, CreatedDoc) /\ ~CallerIsAdmin) => res.status # 200

\* C3 (as stated): for every gate, the delete gate included, an absent gate authorizes
\* every caller and a gate that is the empty list authorizes no non-admin caller.
C3_EveryGateUndefinedAllows ==
    /\ C3_EntryReadWriteExit
    /\ (res.op = "deleteDoc" /\ res.pre # <<>> /\ CurState # <<>>) =>
          /\ Undefined(CurState[1].delete) => res.status # 401
          /\ (Empty(CurState[1].delete, toInfo(Before)) /\ ~CallerIsAdmin) => res.status # 200

\* C3 (amended): an absent entry, read, write or exit gate authorizes every caller; an
\* absent delete gate hands the decision to the write gate (deleteDoc succeeds exactly
\* when the caller has write access); a gate that resolves to [] authorizes no non-admin.
C3_UndefinedAllowsDeleteFallsBack ==
    /\ C3_EntryReadWriteExit
    /\ (res.op = "deleteDoc" /\ res.pre # <<>> /\ CurState # <<>>) =>
          /\ Undefined(CurState[1].delete) =>
                /\ Undefined(CurState[1].write) => res.status = 200
                /\ res.status # 200 => DeniedAt("gate:write")
                /\ (Empty(CurState[1].write, toInfo(Before)) /\ ~CallerIsAdmin) => res.status # 200
          /\ (Empty(CurState[1].delete, toInfo(Before)) /\ ~CallerIsAdmin) => res.status # 200

\* C3: a caller without write access is refused the deletion of a document whose
\* state declares no delete gate
C3_Witness ==
    /\ res.op = "deleteDoc" /\ res.pre # <<>> /\ CurState # <<>>
    /\ Undefined(CurState[1].delete) /\ ~Undefined(CurState[1].write)
    /\ DeniedAt("gate:write") /\ StillStored

\* C4 (as stated): an admin passes every gate check and every transition groups check,
\* whatever list the gate resolves to: no call of an admin is refused by a gate, and
\* getDocs returns to an admin every matching document.
C4_AdminPassesEveryGate ==
    (res.op \in DocOps /\ OnDeclaredType /\ CallerIsAdmin) =>
        /\ res.kind \notin {"AccessDenied", "TypeError"}
        /\ res.op = "getDocs" =>
              Len(res.ret) = Cardinality({id \in DOMAIN docColl[res.type] :
                                 Matches(docColl[res.type][id], res.args[1].value)})

\* the caller passes a gate for a document: the gate is absent, or it resolves to a
\* non-empty list and the caller is found in one of its groups or, found in none, is
\* an admin
PassesGate(gate, doc) ==
    \/ Undefined(gate)
    \/ /\ getInUserGroups(res.caller, gate, doc) # <<>>
       /\ LET m == memberLoop(userGroupCache, res.caller,
                              getInUserGroups(res.caller, gate, doc), 1, res.type, doc, TRUE)
          IN  m.r = "yes" \/ (m.r = "no" /\ CallerIsAdmin)
\* the state definition used for a document: the declared one, or for an admin the
\* definition without gates that stands for an undeclared state; <<>> is an error
UsedState(type, doc) ==
    IF Declared(type, doc) # <<>> THEN Declared(type, doc)
    ELSE IF Has(doc, "state") /\ CallerIsAdmin THEN <<PlainState>> ELSE <<>>
\* the caller may read the stored document as it is
MayRead(stored) ==
    /\ UsedState(res.type, toInfo(stored)) # <<>>
    /\ PassesGate(UsedState(res.type, toInfo(stored))[1].read, toInfo(stored))

\* the ids, in find() order, of the stored documents that match the filter of a
\* getDocs call and that the caller may read
ReadableIds ==
    SelectSeq(IdOrder, LAMBDA id : /\ id \in DOMAIN docColl[res.type]
                                   /\ Matches(docColl[res.type][id], res.args[1].value)
                                   /\ MayRead(docColl[res.type][id]))

\* C5 (as stated): getDocs returns exactly the stored documents that match the filter
\* and whose read gate the caller passes, for every filter and projection; the call
\* does not fail because of a document the caller may not read.
C5_GetDocsExactlyReadable ==
    (res.op = "getDocs" /\ OnDeclaredType) =>
        /\ res.status = 200
        /\ res.ret = [i \in 1..Len(ReadableIds) |->
                         toInfo(Project(docColl[res.type][ReadableIds[i]], res.args[2].value))]

\* C6, the parts that hold as stated: an id that does not exist gives 404 to every
\* caller; a caller who passes the read gate gets the document; onRead runs only
\* after the read check, and only when it passed
C6_FoundAndHook ==
    (res.op = "getDoc" /\ OnDeclaredType) =>
        /\ res.pre = <<>> => (res.status = 404 /\ res.ret = <<>>)
        /\ (res.pre # <<>> /\ MayRead(Before)) =>
              (res.status = 200 /\ res.ret = <<toInfo(Before)>>)
        /\ res.status = 200 => (res.pre # <<>> /\ MayRead(Before))
        /\ \A i \in 1..Len(res.trace) : res.trace[i] = "hook:onRead" =>
              /\ res.pre # <<>> /\ MayRead(Before)
              /\ \E j \in 1..(i - 1) : res.trace[j] = "gate:read"

CachedFor(gate, stored) == CacheList(res.caller, gate, toInfo(stored))

\* C7 (as stated): after a successful createDoc, createDocById or updateDoc the
\* stored curStateRead and curStateWrite are the lists the read and write gates of
\* the resulting state resolve to ([] for an absent gate), whatever the caller sent.
C7_CachedListsFollowState ==
    (/\ res.op \in {"createDoc", "createDocById", "updateDoc"}
     /\ res.status = 200
     /\ Declared(res.type, toInfo(After)) # <<>>) =>
        LET S == Declared(res.type, toInfo(After))[1]
        IN  /\ Has(After, "curStateRead") /\ Has(After, "curStateWrite")
            /\ After["curStateRead"] = CachedFor(S.read, After)
            /\ After["curStateWrite"] = CachedFor(S.write, After)

\* the definition of the state an update enters: the declared one, or the one without
\* hooks that stands for an undeclared state
EnteredState == IF TargetState # <<>> THEN TargetState[1] ELSE PlainState
\* the update names the state the document is already in
SelfTransition == Has(Before, "state") /\ Before["state"] = PGet(res.args, "state")

\* C8: a successful transition of a state to itself runs one entry hook once, onReentry
\* when the state declares it and otherwise onEntry, never both; a successful
\* transition to a different state runs the target's onEntry and no onReentry.
\* (A hook that the state does not declare cannot run.)
C8_OneEntryHook ==
    (IsTransition /\ res.status = 200) =>
        IF SelfTransition /\ EnteredState.onReentry
        THEN Count("hook:onReentry") = 1 /\ Count("hook:onEntry") = 0
        ELSE /\ Count("hook:onReentry") = 0
             /\ Count("hook:onEntry") = IF EnteredState.onEntry THEN 1 ELSE 0

\* C8: a document was moved from a state to the same state, which declares both
\* hooks, and onReentry ran
C8_Witness ==
    /\ IsTransition /\ res.status = 200 /\ SelfTransition
    /\ EnteredState.onReentry /\ EnteredState.onEntry
    /\ Count("hook:onReentry") = 1

\* the stored documents are what they were before the create call
NothingInserted ==
    IF res.pre = <<>> THEN ~StillStored ELSE StillStored /\ After = Before

\* C9: createDoc and createDocById store the document only after the caller passed
\* the entry gate of the initial state; a refused entry check gives AccessDenied
\* (401), stores nothing and does not run onEntry; a passed one is followed by onEntry
\* exactly once (when the state declares it) and then by the insert.
C9_EntryGateBeforeInsert ==
    (IsCreate /\ UsedState(res.type, CreatedDoc) # <<>>) =>
        LET S == UsedState(res.type, CreatedDoc)[1]
        IN  IF PassesGate(S.entry, CreatedDoc)
            THEN /\ res.trace = <<"gate:entry">>
                                \o (IF S.onEntry THEN <<"hook:onEntry">> ELSE <<>>)
                                \o <<"insertOne">>
                 /\ res.status = 200 => StillStored
                 /\ res.status # 200 => (res.kind = "DuplicateKey" /\ NothingInserted)
            ELSE /\ res.status = 401 /\ res.kind = "AccessDenied"
                 /\ res.trace = <<"gate:entry">>
                 /\ NothingInserted

\* C9: a caller outside the entry gate's groups was refused and nothing was stored
C9_Witness ==
    /\ IsCreate /\ res.op = "createDoc" /\ UsedState(res.type, CreatedDoc) # <<>>
    /\ ~PassesGate(UsedState(res.type, CreatedDoc)[1].entry, CreatedDoc)
    /\ res.status = 401 /\ ~StillStored

\* C10: createDoc on a type that requires a caller-supplied id, and createDocById on
\* a type that does not, fail (401) before any gate check, hook or insert.
C10_IdFlagMismatchRefused ==
    (/\ OnDeclaredType
     /\ \/ res.op = "createDoc" /\ documents[res.type].document_id_required
        \/ res.op = "createDocById" /\ ~documents[res.type].document_id_required) =>
        /\ res.status = 401
        /\ res.trace = <<>>
        /\ NothingInserted

\* C10: createDocById was called on a type that takes no caller-supplied id and was
\* refused before any check, with nothing stored
C10_Witness ==
    /\ OnDeclaredType
    /\ res.op = "createDocById" /\ ~documents[res.type].document_id_required
    /\ res.status = 401 /\ res.trace = <<>> /\ ~StillStored

\* a create call that succeeded, and the document it returned
Created == res.op \in {"createDoc", "createDocById"} /\ res.status = 200
Returned == res.ret[1]

\* C11 (as stated): a successful createDocById returns a document whose id is the id
\* supplied in the call, for every body; a successful createDoc returns the id the
\* store assigned, whatever id or _id the body carried; a getDoc that succeeds
\* returns the stored document under the id asked for; no returned document has
\* the storage key _id.
C11_ReturnedIdIsTheCallId ==
    /\ Created => (Has(Returned, "id") /\ Returned["id"] = res.id)
    /\ (res.op = "getDoc" /\ res.status = 200) =>
          (Returned = toInfo(Before) /\ Returned["id"] = res.id)
    /\ (res.op \in DocOps) => \A i \in 1..Len(res.ret) : ~Has(res.ret[i], "_id")

\* a deleteDoc on a stored document whose state getDocState accepts
IsDelete == res.op = "deleteDoc" /\ res.pre # <<>> /\ UsedState(res.type, toInfo(Before)) # <<>>
\* the gate deleteDoc checks for a state: delete when declared, else write
DeleteGate(S) == IF Undefined(S.delete) THEN S.write ELSE S.delete
DeleteGateEvent(S) == IF Undefined(S.delete) THEN "gate:write" ELSE "gate:delete"

C12_WitnessRemoved ==
    /\ IsDelete /\ res.status = 200 /\ ~StillStored
    /\ res.trace = <<"gate:write", "hook:onDelete", "deleteOne">>

\* a runActionForDoc on a stored document in a declared state
IsAction == res.op = "runActionForDoc" /\ res.pre # <<>> /\ CurState # <<>>
\* C13, the part that holds either way: the call writes nothing, checks no write
\* gate, runs the action hook at most once and only if the state declares it, and
\* without a declared hook a call that reaches it returns nothing
C13_ActionHookOnly ==
    IsAction =>
        /\ StillStored /\ After = Before
        /\ Count("gate:write") = 0
        /\ Count("hook:action") <= (IF CurState[1].action THEN 1 ELSE 0)
        /\ res.ret = <<>>

GroupNames == {"Employee", "management", "procurement", "Manager", "ProcOwner", "admin", "nogroup"}
\* the members of the stored group of an id, from the cache first: <<members>>, or
\* <<>> when no such group is stored
StoredMembers(id) ==
    IF id \in DOMAIN userGroupCache THEN <<userGroupCache[id].members>>
    ELSE IF \E i \in 1..Len(userColl) : userColl[i].id = id
         THEN <<userColl[FindGroupIdx(userColl, id)].members>>
         ELSE <<>>
\* what the field or the stored group of a name resolves to for a document
FieldOrGroup(name, doc, hasDoc) ==
    IF hasDoc /\ Has(doc, name) THEN doc[name]
    ELSE IF StoredMembers(name) # <<>> THEN Arr(StoredMembers(name)[1])
    ELSE Arr(<<>>)
\* a name that is neither a role of the caller, a document role of the type, a
\* field of the document nor a stored group
Nonexistent(name, type, doc) ==
    /\ name \notin res.caller.roles /\ name \notin documents[type].docRoles
    /\ ~Has(doc, name) /\ StoredMembers(name) = <<>>

\* C14: the members of a group name are those of the document role of that name
\* (its callback on the document, [] without a document; the group a string role
\* names, resolved as follows), else the document field of that name, else the
\* stored group of that id, else []; a read gate that names only nonexistent groups
\* refuses a non-admin caller with AccessDenied (401).
C14_ResolutionOrder ==
    /\ \A type \in Types, g \in GroupNames, hasDoc \in BOOLEAN : \A id \in DOMAIN docColl[type] :
          LET doc == toInfo(docColl[type][id])
              m == getMembers(userGroupCache, g, type, doc, hasDoc)
          IN  IF g \in documents[type].docRoles
              THEN IF RoleIsCallback(g)
                   THEN IF ~hasDoc THEN m.defined /\ m.mv = Arr(<<>>)
                        ELSE IF Has(doc, "procurement")
                             THEN m.defined /\ m.mv = doc["procurement"]
                             ELSE ~m.defined
                   ELSE m.defined /\ m.mv = FieldOrGroup(RoleGroup(g), doc, hasDoc)
              ELSE m.defined /\ m.mv = FieldOrGroup(g, doc, hasDoc)
    /\ (/\ res.op = "getDoc" /\ res.pre # <<>> /\ CurState # <<>>
        /\ CurState[1].read.kind = "static" /\ CurState[1].read.groups # <<>>
        /\ \A i \in 1..Len(CurState[1].read.groups) :
               Nonexistent(CurState[1].read.groups[i], res.type, toInfo(Before))
        /\ ~CallerIsAdmin)
       => DeniedAt("gate:read")

\* C14: a non-admin caller was refused with 401 by a read gate that names only a
\* group that does not exist
C14_Witness ==
    /\ res.op = "getDoc" /\ res.pre # <<>> /\ CurState # <<>>
    /\ CurState[1].read.kind = "static" /\ CurState[1].read.groups # <<>>
    /\ \A i \in 1..Len(CurState[1].read.groups) :
           Nonexistent(CurState[1].read.groups[i], res.type, toInfo(Before))
    /\ ~CallerIsAdmin /\ DeniedAt("gate:read")

\* the emails of the members a resolved value lists (a value that is not an array
\* lists none)
ListedEmails(m) ==
    IF m.defined /\ m.mv.t = "arr" THEN {m.mv.v[i].email : i \in 1..Len(m.mv.v)} ELSE {}
\* an updateDoc without a state change on a stored document of type 'gated' in state
\* review, whose write gate lists the document role ProcOwner (its callback returns
\* document.procurement), by a caller listed in the document's procurement array
OwnerWrites ==
    /\ IsUpdate /\ ~PHas(res.args, "state") /\ res.type = "gated"
    /\ Has(Before, "state") /\ Before["state"] = "review"
    /\ Has(Before, "procurement") /\ Before["procurement"].t = "arr"
    /\ \E i \in 1..Len(Before["procurement"].v) : Before["procurement"].v[i].email = res.caller.email

C15_WitnessCase ==
    /\ StoredMembers("management") = <<(<<Person("User1@test.com")>>)>>
    /\ isInUserGroup(userGroupCache, Users["user1"], "management", "", EmptyObj, FALSE).r = "no"

\* an updateDoc without a state change on a stored document whose state has a
\* static write gate, and the names the gate lists
IsGatedWrite ==
    /\ IsUpdate /\ ~PHas(res.args, "state") /\ hasNonStateKey(res.args)
    /\ CurState[1].write.kind = "static"
WriteGroups == CurState[1].write.groups
\* the document field of the name holds a single Person
SinglePerson(g, doc) == Has(doc, g) /\ doc[g].t = "obj"
\* the caller is a member under a name when a single Person counts as a list of one
MemberCountingPerson(g, doc) ==
    \/ g \in res.caller.roles
    \/ res.caller.email \in ListedEmails(getMembers(userGroupCache, g, res.type, doc, TRUE))
    \/ SinglePerson(g, doc) /\ doc[g].v[1].email = res.caller.email

\* C16 (as stated): a document field that holds a single Person counts as a list of
\* one member: on a write gate that lists the field's name the caller with that
\* person's email is authorized, and a non-admin caller who is a member under none
\* of the listed names is refused with AccessDenied (401).
C16_SinglePersonCounts ==
    (IsGatedWrite /\ \E i \in 1..Len(WriteGroups) : SinglePerson(WriteGroups[i], toInfo(Before))) =>
        IF \E i \in 1..Len(WriteGroups) : MemberCountingPerson(WriteGroups[i], toInfo(Before))
        THEN res.status = 200
        ELSE ~CallerIsAdmin => DeniedAt("gate:write")

\* C17 (as stated): as long as only non-admin callers have called createDoc,
\* createDocById, updateDoc and deleteDoc, the state field of every stored document,
\* when present, is exactly the name of a declared state of its type.
C17_StoredStateIsDeclared ==
    ~adminWrote =>
        \A type \in Types : \A id \in DOMAIN docColl[type] :
            Has(docColl[type][id], "state") =>
                docColl[type][id]["state"] \in DOMAIN documents[type].states

\* the call being answered names a type that the registry does not declare
OnUndeclaredType ==
    /\ res.op \in {"createDoc", "createDocById", "getDoc", "getDocs", "updateDoc",
                   "deleteDoc", "runActionForDoc"}
    /\ res.type \notin DOMAIN documents

\* C18 (as stated): each of createDoc, createDocById, getDoc, getDocs, updateDoc,
\* deleteDoc and runActionForDoc, called with a type name that the registry does
\* not declare, fails with InvalidType (status 400).
C18_UndeclaredTypeIsInvalidType ==
    OnUndeclaredType => (res.status = 400 /\ res.kind = "InvalidType")

\* C18, the part that holds: a call with a type name that the registry does not
\* declare fails, returns nothing, and leaves the stored documents, the stored
\* groups and the group cache as they were.
C18_UndeclaredTypeLeavesStorage ==
    [][ (Idle /\ OnUndeclaredType') =>
            /\ res'.status \in {400, 500}
            /\ res'.ret = <<>>
            /\ UNCHANGED <<docColl, userColl, userGroupCache, nextOid>> ]_vars

\* the operations that start with assertAdmin
AdminOps ==
    {"createUserGroup", "updateUserGroup", "deleteUserGroup", "export", "exportIds",
     "exportId", "import", "importId", "reset"}

EmailIn(members, email) == \E i \in 1..Len(members) : members[i].email = email

\* the caller is no admin: not by id, not by role, and not as a member of an admin
\* group, stored or cached
NotAdmin(caller) ==
    /\ caller.id \notin adminIds
    /\ adminRole \notin caller.roles
    /\ \A k \in 1..Len(adminGroups) :
          /\ adminGroups[k] \notin caller.roles
          /\ \A j \in 1..Len(userColl) :
                userColl[j].id = adminGroups[k] => ~EmailIn(userColl[j].members, caller.email)
          /\ adminGroups[k] \in DOMAIN userGroupCache =>
                ~EmailIn(userGroupCache[adminGroups[k]].members, caller.email)

\* a call of an administrative operation by a caller who is no admin is answered
NonAdminCall == Idle /\ res'.op \in AdminOps /\ NotAdmin(res'.caller)

\* C19 (as stated): createUserGroup, updateUserGroup, deleteUserGroup, export,
\* exportIds, exportId, import, importId and reset by a caller who is no admin fail
\* with 401 and leave the stored groups, the stored documents and the group cache
\* unchanged.
C19_NonAdminChangesNothing ==
    [][ NonAdminCall =>
            /\ res'.status = 401
            /\ UNCHANGED <<userColl, docColl, userGroupCache>> ]_vars

\* C19 (amended): such a call fails with 401 and leaves the stored groups and the
\* stored documents unchanged; the group cache keeps every entry it had, and what
\* the admin check adds to it is the stored record of an admin group.
C19_NonAdminRefused ==
    [][ NonAdminCall =>
            /\ res'.status = 401
            /\ res'.dump = EmptyDump
            /\ UNCHANGED <<userColl, docColl>>
            /\ \A g \in DOMAIN userGroupCache :
                  g \in DOMAIN userGroupCache' /\ userGroupCache'[g] = userGroupCache[g]
            /\ \A g \in (DOMAIN userGroupCache') \ (DOMAIN userGroupCache) :
                  /\ \E k \in 1..Len(adminGroups) : adminGroups[k] = g
                  /\ \E j \in 1..Len(userColl) :
                        userColl[j].id = g /\ userGroupCache'[g] = groupInfo(userColl[j]) ]_vars

\* user1, who is no admin, was refused a reset of a store that holds a document, and
\* the admin check has put the stored group 'admin' into the cache
C19_Witness ==
    /\ res.op = "reset" /\ res.status = 401 /\ res.caller = Users["user1"]
    /\ StoredCount(docColl) > 0
    /\ "admin" \in DOMAIN userGroupCache
    /\ \E j \in 1..Len(userColl) : userColl[j].id = "admin" /\ userColl[j]._id = "imp1"

\* the caller is an admin: by id, by role, or as a member of an admin group as
\* lookupUserGroup resolves it (the cached entry, else the first stored record)
AdminCaller(caller) ==
    \/ caller.id \in adminIds
    \/ adminRole \in caller.roles
    \/ \E k \in 1..Len(adminGroups) :
          IF adminGroups[k] \in DOMAIN userGroupCache
          THEN EmailIn(userGroupCache[adminGroups[k]].members, caller.email)
          ELSE /\ FindGroupIdx(userColl, adminGroups[k]) # 0
               /\ EmailIn(userColl[FindGroupIdx(userColl, adminGroups[k])].members, caller.email)

\* a createUserGroup call that names the id of a stored group is answered
CreateOfStoredId ==
    /\ Idle /\ res'.op = "createUserGroup"
    /\ \E j \in 1..Len(userColl) : userColl[j].id = res'.id

\* C20: createUserGroup with an id for which a group is already stored fails, for
\* an admin with AlreadyExists (400) and for any other caller at the admin check
\* (401), and the user collection, so the stored group's members and deletable
\* flag, is left unchanged.
C20_StoredIdAlreadyExists ==
    [][ CreateOfStoredId =>
            /\ IF AdminCaller(res'.caller)
               THEN res'.status = 400 /\ res'.kind = "AlreadyExists"
               ELSE res'.status = 401
            /\ UNCHANGED userColl ]_vars

\* admin1 was refused the creation of 'management', which is stored with other
\* members and another deletable flag than the call gives
C20_Witness ==
    /\ res.op = "createUserGroup" /\ res.status = 400 /\ res.kind = "AlreadyExists"
    /\ res.caller = Users["admin1"]
    /\ \E j \in 1..Len(userColl) :
          /\ userColl[j].id = res.id
          /\ userColl[j].members # PGet(res.args, "members")
          /\ userColl[j].deletable # PGet(res.args, "deletable")

\* the same for manager1, who is an admin as a member of the stored group 'admin'
C20_WitnessGroupAdmin ==
    /\ res.op = "createUserGroup" /\ res.status = 400 /\ res.kind = "AlreadyExists"
    /\ res.caller = Users["manager1"]

\* a deleteUserGroup call by an admin is answered, and every stored record with the
\* id, of which there is one, is marked deletable:false
DeleteOfUndeletable ==
    /\ Idle /\ res'.op = "deleteUserGroup"
    /\ AdminCaller(res'.caller)
    /\ \E j \in 1..Len(userColl) : userColl[j].id = res'.id
    /\ \A j \in 1..Len(userColl) : userColl[j].id = res'.id => ~userColl[j].deletable

\* C21: deleteUserGroup by an admin on a group that is stored with deletable:false
\* fails with Undeletable (403), and the group remains stored.  (A caller who is
\* no admin is refused with 401 before the group is looked at.)
C21_UndeletableStaysStored ==
    [][ DeleteOfUndeletable =>
            /\ res'.status = 403 /\ res'.kind = "Undeletable"
            /\ UNCHANGED userColl ]_vars

\* C21 for the groups whose cache entry agrees with the stored record
C21_UndeletableWhenCacheIsFresh ==
    [][ (DeleteOfUndeletable
         /\ (res'.id \in DOMAIN userGroupCache => ~userGroupCache[res'.id].deletable)) =>
            /\ res'.status = 403 /\ res'.kind = "Undeletable"
            /\ UNCHANGED userColl ]_vars

\* what lookupUserGroup answers on the cache and the user collection given: the
\* cached entry, else the first stored record with the id
Looked(cache, coll, id) ==
    IF id \in DOMAIN cache THEN [found |-> TRUE, members |-> cache[id].members]
    ELSE IF FindGroupIdx(coll, id) # 0
    THEN [found |-> TRUE, members |-> coll[FindGroupIdx(coll, id)].members]
    ELSE [found |-> FALSE, members |-> <<>>]

\* an updateUserGroup call by an admin is answered
AdminUpdatesGroup == Idle /\ res'.op = "updateUserGroup" /\ AdminCaller(res'.caller)

\* C22: updateUserGroup by an admin on an id for which no group is stored fails
\* with NotFound (404) and leaves the user collection as it was; on a stored id it
\* succeeds, the record found under the id has the given members and is otherwise
\* unchanged, as is every other record, and a following getUserGroup (the cached
\* entry) returns the given members.
C22_UpdateOrNotFound ==
    [][ AdminUpdatesGroup =>
          IF FindGroupIdx(userColl, res'.id) = 0
          THEN /\ res'.status = 404 /\ res'.kind = "NotFound"
               /\ UNCHANGED userColl
               /\ res'.id \notin DOMAIN userGroupCache'
          ELSE /\ res'.status = 200
               /\ userColl' = [userColl EXCEPT ![FindGroupIdx(userColl, res'.id)].members =
                                                  PGet(res'.args, "members")]
               /\ Looked(userGroupCache', userColl', res'.id).found
               /\ Looked(userGroupCache', userColl', res'.id).members = PGet(res'.args, "members") ]_vars

\* manager1, an admin as a member of the stored group 'admin', has given
\* 'management', which was created without members, a member, and the cache holds
\* the updated group
C22_Witness ==
    /\ res.op = "updateUserGroup" /\ res.status = 200 /\ res.caller = Users["manager1"]
    /\ PGet(res.args, "members") = <<Person("manager1@test.com")>>
    /\ userGroupCache[res.id].members = PGet(res.args, "members")
    /\ userColl[FindGroupIdx(userColl, res.id)].members = PGet(res.args, "members")

\* admin1 was answered NotFound for 'management' after a reset with simpleInit, and
\* no group is stored
C22_WitnessNotFound ==
    /\ res.op = "updateUserGroup" /\ res.status = 404 /\ res.caller = Users["admin1"]
    /\ userColl = <<>>

\* C23: the user collection holds at most one record per group id.
C23_GroupIdsUnique ==
    \A i, j \in 1..Len(userColl) : userColl[i].id = userColl[j].id => i = j

\* the documents of the collection of type t in the answer of export that the
\* caller has kept
keptOf(t) ==
    With(exported[CHOOSE i \in 1..Len(exported) : exported[i].coll = t].entries, LAMBDA es :
        [id \in {es[i]._id : i \in 1..Len(es)} |-> es[CHOOSE i \in 1..Len(es) : es[i]._id = id].doc])

\* an admin's import of the kept answer of export is answered, and no document is
\* stored, as after a reset
ImportAfterReset ==
    /\ Idle /\ res'.op = "import" /\ res'.status = 200
    /\ PGet(res'.args, "payload") \in {KeptPayload, KeptJsonPayload}
    /\ docColl = [t \in Types |-> NoDocs]

\* C24: export by an admin, reset, and import of the exported payload: every
\* document collection holds exactly the documents it held at the export, under the
\* same ids and with the same fields.
C24_RoundTripIdentical ==
    [][ ImportAfterReset => docColl' = [t \in Types |-> keptOf(t)] ]_vars

\* C24 for a payload that is handed to import as export returned it, in the same
\* process
C24_RoundTripInProcess ==
    [][ (ImportAfterReset /\ PGet(res'.args, "payload") = KeptPayload) =>
            docColl' = [t \in Types |-> keptOf(t)] ]_vars

\* C24 through the admin controller: the documents are stored again with the same
\* fields, each under the text of its _id
C24_RoundTripJsonIds ==
    [][ (ImportAfterReset /\ PGet(res'.args, "payload") = KeptJsonPayload) =>
            \A t \in Types :
               /\ DOMAIN docColl'[t] = {JsonId(id) : id \in DOMAIN keptOf(t)}
               /\ \A id \in DOMAIN keptOf(t) :
                     docColl'[t][JsonId(id)] = Spread(keptOf(t)[id], ("_id" :> JsonId(id))) ]_vars

\* C24, seen by a caller: getDoc with the _id of a stored document finds it
C24_StoredDocIsFound ==
    (res.op = "getDoc" /\ OnDeclaredType /\ res.id \in DOMAIN docColl[res.type]) => res.status # 404

\* import as C25 describes it, from the i-th entry of the collection cName on: an
\* entry whose _id is that of a stored record (the same text) is skipped, every
\* other is inserted, and an entry without _id ends the import with 400
RECURSIVE skipOrInsert(_, _, _, _)
skipOrInsert(cName, entries, i, st) ==
    IF i > Len(entries) \/ st.status # 200 THEN st
    ELSE IF ~entries[i].hasId THEN [st EXCEPT !.status = 400]
    ELSE IF cName = UserCollection
    THEN IF \E j \in 1..Len(st.groups) : JsonId(st.groups[j]._id) = JsonId(entries[i]._id)
         THEN skipOrInsert(cName, entries, i + 1, st)
         ELSE skipOrInsert(cName, entries, i + 1,
                  [st EXCEPT !.groups = Append(@, StoredGroup(entries[i]._id, entries[i].group))])
    ELSE IF \E k \in DOMAIN st.docs[cName] : JsonId(k) = JsonId(entries[i]._id)
         THEN skipOrInsert(cName, entries, i + 1, st)
         ELSE skipOrInsert(cName, entries, i + 1,
                  [st EXCEPT !.docs[cName] = (entries[i]._id :> entries[i].doc) @@ @])

RECURSIVE skipOrInsertFrom(_, _, _)
skipOrInsertFrom(payload, c, st) ==
    IF c > Len(payload) \/ st.status # 200 THEN st
    ELSE skipOrInsertFrom(payload, c + 1, skipOrInsert(payload[c].coll, payload[c].entries, 1, st))

\* an import call by an admin is answered
AdminImports == Idle /\ res'.op = "import" /\ AdminCaller(res'.caller)

\* every entry of the payload has an _id under which a record is stored in its
\* collection
AllStored(payload) ==
    \A c \in 1..Len(payload) : \A i \in 1..Len(payload[c].entries) :
        With(payload[c].entries[i], LAMBDA e :
            /\ e.hasId
            /\ IF payload[c].coll = UserCollection
               THEN \E j \in 1..Len(userColl) : userColl[j]._id = e._id
               ELSE e._id \in DOMAIN AllDocs[payload[c].coll])

\* C25: import by an admin skips every entry whose _id is stored in its collection
\* and goes on with the entries that follow, so that an import of a payload of
\* which every entry is stored, as is one that has just been imported, succeeds and
\* leaves the store as it is.
C25_StoredEntriesAreSkipped ==
    [][ (AdminImports /\ AllStored(payloadOf(PGet(res'.args, "payload")))) =>
            /\ res'.status = 200
            /\ UNCHANGED <<docColl, userColl>> ]_vars

\* C25 for the payloads in which no _id is the text of an ObjectId: import inserts
\* every entry whose _id is not stored, skips every other, and ends with 400 at an
\* entry without _id
C25_SkipStoredPlainIds ==
    [][ (AdminImports /\ PGet(res'.args, "payload") \in 1..Len(ImportPayloads)) =>
          With(skipOrInsertFrom(payloadOf(PGet(res'.args, "payload")), 1,
                                [docs |-> docColl, groups |-> userColl, status |-> 200]),
               LAMBDA st : /\ res'.status = st.status
                           /\ docColl' = st.docs
                           /\ userColl' = st.groups) ]_vars

\* C25: whatever import answers, it removes and changes no stored record
C25_ImportKeepsStoredRecords ==
    [][ (Idle /\ res'.op = "import") =>
          /\ \A t \in Types : \A k \in DOMAIN docColl[t] :
                k \in DOMAIN docColl'[t] /\ docColl'[t][k] = docColl[t][k]
          /\ Len(userColl') >= Len(userColl)
          /\ SubSeq(userColl', 1, Len(userColl)) = userColl ]_vars

\* a reset call by an admin is answered
ResetReturns == Idle /\ res'.op = "reset" /\ res'.status = 200

\* C26: after a reset by an admin has returned, every document collection and the
\* attachment collection are empty, no record of the user collection and no entry
\* of the cache is one from before the reset, and the groups that exist are
\* exactly the configured ones, as init() creates them, or none when simpleInit is
\* true.
C26_ResetLeavesConfiguredGroups ==
    [][ ResetReturns =>
          /\ docColl' = [t \in Types |-> NoDocs]
          /\ attColl' = NoDocs
          /\ \A j \in 1..Len(userColl') : \A k \in 1..Len(userColl) : userColl'[j]._id # userColl[k]._id
          /\ [j \in 1..Len(userColl') |-> groupInfo(userColl'[j])]
                = IF PGet(res'.args, "simpleInit") THEN <<>>
                  ELSE [j \in 1..Len(ConfiguredGroups) |-> Group(ConfiguredGroups[j], <<>>, FALSE)]
          /\ \A g \in DOMAIN userGroupCache' :
                /\ FindGroupIdx(userColl', g) # 0
                /\ userGroupCache'[g] = groupInfo(userColl'[FindGroupIdx(userColl', g)]) ]_vars

\* admin1's reset has been answered; before it a document and an attachment were
\* stored, the group 'admin' existed and had an entry in the cache; now the
\* configured groups are stored again
C26_Witness ==
    /\ res.op = "reset" /\ res.status = 200 /\ ~PGet(res.args, "simpleInit")
    /\ res.pre[1].docs > 0 /\ res.pre[1].atts > 0
    /\ "admin" \in res.pre[1].groups /\ "admin" \in res.pre[1].cached
    /\ Len(userColl) = Len(ConfiguredGroups)

\* the same with simpleInit: no group is stored
C26_WitnessSimpleInit ==
    /\ res.op = "reset" /\ res.status = 200 /\ PGet(res.args, "simpleInit")
    /\ res.pre[1].docs > 0 /\ res.pre[1].atts > 0
    /\ "admin" \in res.pre[1].groups /\ "admin" \in res.pre[1].cached
    /\ userColl = <<>>

\* the second step of an updateDoc call is answered
WriteStep == Idle /\ res'.op = "updateDoc" /\ res'.caller.id \in DOMAIN inflight

\* C27: no lock spans the steps of updateDoc.  A call that has passed its checks
\* against the document it read, which for a caller who is no admin include that
\* the new state is a key of nextStates of the state it read, writes whatever the
\* stored document has become: as long as the document is stored the call
\* succeeds and the stored state is the one it asked for.
C27_WriteIgnoresStoredState ==
    [][ (WriteStep /\ StoredAt(res'.type, idFilter(res'.id)) # <<>>) =>
          /\ res'.status = 200
          /\ PHas(res'.args, "state") =>
                /\ docColl'[res'.type][idFilter(res'.id)]["state"] = PGet(res'.args, "state")
                /\ ~AdminCaller(res'.caller) =>
                      PGet(res'.args, "state")
                         \in DOMAIN documents[res'.type].states[StateOf(res'.pre[1])].nextStates ]_vars

\* manager1 and user1, neither an admin, both read the document in 'requested';
\* user1 moved it to 'closed', and then manager1's write moved it from 'closed' to
\* 'approved', which is no key of nextStates of 'closed'
C27_Witness ==
    /\ res.op = "updateDoc" /\ res.status = 200 /\ Len(res.pre) = 2
    /\ ~AdminCaller(res.caller)
    /\ StateOf(res.pre[1]) = "requested" /\ StateOf(res.pre[2]) = "closed"
    /\ StateOf(res.ret[1]) = "approved"
    /\ "approved" \notin DOMAIN documents[res.type].states["closed"].nextStates
    /\ docColl[res.type][idFilter(res.id)]["state"] = "approved"

\* C28: whenever no call is being answered, every entry of the group cache equals
\* the stored record with its id (the one that lookupUserGroup finds), so that a
\* lookup after an updateUserGroup, deleteUserGroup, importId or reset has
\* returned yields the stored record and never an earlier one.
C28_CacheEqualsStore ==
    Idle => \A g \in DOMAIN userGroupCache :
               /\ FindGroupIdx(userColl, g) # 0
               /\ userGroupCache[g] = groupInfo(userColl[FindGroupIdx(userColl, g)])

\* the caller of the call that is answered passes the read gate of the document
\* the call names, in the state in which the document is stored
PassesRead == getDocRun(res'.caller, res'.type, res'.id).status = 0
\* the same for the write gate
PassesWrite ==
    /\ StoredAt(res'.type, idFilter(res'.id)) # <<>>
    /\ StepAccess(Start, res'.caller, res'.type, toInfo(docColl[res'.type][idFilter(res'.id)]),
                  "write", "gate:write").status = 0
\* a call of one of the operations ops is answered
Answers(ops) == Idle /\ res'.op \in ops

\* C29: getDocAttachments and getDocAttachment return attachments only to a caller
\* who passes the read gate of the document in its current state, and
\* createDocAttachments and deleteDocAttachments change the attachment collection
\* only for a caller who passes the read gate and the write gate.
C29_AttachmentGates ==
    [][ /\ (Answers({"getDocAttachments", "getDocAttachment"}) /\ res'.ret # <<>>) => PassesRead
        /\ (Answers({"createDocAttachments", "deleteDocAttachments"}) /\ attColl' # attColl) =>
              (PassesRead /\ PassesWrite) ]_vars

\* <<ev>> when the step is taken, <<>> when it is not
Step(taken, ev) == IF taken THEN <<ev>> ELSE <<>>

\* an updateDoc that names a new state was answered with success, on a document
\* in a declared state S, and the new state T is declared and a key of
\* S.nextStates
StateChanged ==
    /\ res.op = "updateDoc" /\ res.status = 200 /\ res.pre # <<>>
    /\ PHas(res.args, "state") /\ PGet(res.args, "state") # ""
    /\ CurState # <<>> /\ TargetState # <<>>
    /\ PGet(res.args, "state") \in DOMAIN CurState[1].nextStates

\* the steps the claim lists, for the call that was answered
StepsInOrder ==
    With(CurState[1], LAMBDA S : With(TargetState[1], LAMBDA T :
        <<"gate:next">>
        \o Step(S.exit.kind # "undefined", "gate:exit")
        \o Step(hasNonStateKey(res.args), "gate:write")
        \o Step(hasNonStateKey(res.args) /\ S.onWrite, "hook:onWrite")
        \o Step(T.entry.kind # "undefined", "gate:entry")
        \o Step(S.nextStates[PGet(res.args, "state")].action, "hook:action")
        \o (IF StateOf(Before) = PGet(res.args, "state") /\ T.onReentry
            THEN <<"hook:onReentry">> ELSE Step(T.onEntry, "hook:onEntry"))
        \o <<"updateOne">>))

C30_WitnessReentry ==
    /\ StateChanged
    /\ res.trace = <<"gate:next", "gate:exit", "gate:entry", "hook:onReentry", "updateOne">>

\* an updateDoc whose payload has no state key was answered, on a stored document
\* in a declared state
NonStateUpdate ==
    /\ res.op = "updateDoc" /\ res.pre # <<>> /\ CurState # <<>>
    /\ ~PHas(res.args, "state")

\* what C31 says of the call that was answered
OnlyWriteGateAndOnWrite ==
    IF res.status = 200
    THEN /\ res.trace = <<"gate:write">> \o Step(CurState[1].onWrite, "hook:onWrite") \o <<"updateOne">>
         /\ StillStored
         /\ StateOf(After) = StateOf(Before)
         /\ Has(After, "curStateRead") /\ Has(After, "curStateWrite")
         /\ After["curStateRead"] = CacheList(res.caller, CurState[1].read, toInfo(Before))
         /\ After["curStateWrite"] = CacheList(res.caller, CurState[1].write, toInfo(Before))
    ELSE /\ res.status \in {401, 500}
         /\ res.trace = <<"gate:write">>
         /\ StillStored /\ After = Before

\* C31: an updateDoc whose payload has no state key checks the write gate of the
\* current state S and nothing else, runs S.onWrite and no other hook, stores the
\* cache fields as resolved from S and leaves the stored state as it is; when the
\* write gate refuses, the call fails and the document is unchanged.
C31_NonStateUpdate ==
    NonStateUpdate => OnlyWriteGateAndOnWrite

\* C31 for the payloads of which no key begins with '$'
C31_NonStateUpdatePlainKeys ==
    (NonStateUpdate /\ \A i \in 1..Len(res.args) : res.args[i].key \notin {"$set", "$unset"}) =>
        OnlyWriteGateAndOnWrite

\* the state names a call of getDocState carries
StateNames == {"requested", "approved$v2", "bogus", "constructor"}

\* what C32 says getDocState returns for the caller c and the type t: on the state
\* name s, and on an absent state
AsC32Says(c, t, s) ==
    With(getDocState(Env(Start), Users[c], t, TRUE, s), LAMBDA g :
        IF SplitDollar(s) \in DOMAIN documents[t].states
        THEN g.r = "ok" /\ g.def = documents[t].states[SplitDollar(s)]
        ELSE IF isAdmin(Env(Start), Users[c]).b
        THEN g.r = "ok" /\ g.def = PlainState
        ELSE g.r = "err400")
AsC32SaysAbsent(c, t) ==
    With(getDocState(Env(Start), Users[c], t, FALSE, ""), LAMBDA g :
        IF Cardinality(DOMAIN documents[t].states) = 1
        THEN g.r = "ok" /\ g.def = documents[t].states[CHOOSE n \in DOMAIN documents[t].states : TRUE]
        ELSE g.r = "err400")
\* a getDoc or deleteDoc on a stored document of which the state is not declared
OnUndeclaredState ==
    /\ res.op \in {"getDoc", "deleteDoc"} /\ res.pre # <<>>
    /\ Has(Before, "state") /\ CurState = <<>>

\* C32: getDocState returns the declared definition for the name of a declared
\* state; for any other name it fails with 400 for a caller who is no admin and
\* returns a state without gates, hooks and next states for an admin, whose getDoc
\* and deleteDoc on a document stored in such a state therefore succeed; for an
\* absent state it returns the one state of a type that declares exactly one, and
\* fails with 400 for any other type.
C32_GetDocState ==
    /\ \A c \in UserIds, t \in Types :
          /\ \A s \in StateNames : AsC32Says(c, t, s)
          /\ AsC32SaysAbsent(c, t)
    /\ OnUndeclaredState => IF CallerIsAdmin THEN res.status = 200
                            ELSE res.status = 400 /\ res.kind = "InvalidState"

\* C32 for the state names that are not those of a member every object inherits
C32_GetDocStateOwnNames ==
    /\ \A c \in UserIds, t \in Types :
          /\ \A s \in StateNames \ InheritedKeys : AsC32Says(c, t, s)
          /\ AsC32SaysAbsent(c, t)
    /\ (OnUndeclaredState /\ StateOf(Before) \notin InheritedKeys) =>
          IF CallerIsAdmin THEN res.status = 200
          ELSE res.status = 400 /\ res.kind = "InvalidState"

\* a caller who is no admin has read a document that is stored in the state
\* 'constructor', which the type does not declare
C32_NonAdminReadsUndeclared ==
    ~(/\ OnUndeclaredState /\ res.op = "getDoc" /\ ~CallerIsAdmin
      /\ StateOf(Before) = "constructor" /\ res.status = 200)

\* the caller is an admin by configuration: by id, by role, or as a member of an
\* admin group (the group's name among the caller's roles, or the caller's email in
\* the member list resolved for the group)
AdminByConfiguration(caller) ==
    \/ AdminCaller(caller)
    \/ \E k \in 1..Len(adminGroups) : adminGroups[k] \in caller.roles

\* the same, with the member lists read from the stored groups
AdminByStore(caller) ==
    \/ caller.id \in adminIds
    \/ adminRole \in caller.roles
    \/ \E k \in 1..Len(adminGroups) :
          \/ adminGroups[k] \in caller.roles
          \/ \E j \in 1..Len(userColl) :
                userColl[j].id = adminGroups[k] /\ EmailIn(userColl[j].members, caller.email)

\* a context on which isAdmin was not called yet
FreshCtx == [cache |-> userGroupCache, admin |-> "unset"]

\* C33 (with the member list that lookupUserGroup resolves, the cached entry
\* before the stored group): isAdmin(ctx) is true exactly when the caller's id is an
\* admin id, or the caller's roles contain the admin role, or the caller is a member
\* of an admin group; the first call stores its result in the context, and every later call on
\* that context returns the stored value without resolving a group, whatever the
\* groups are by then; an administrative operation is answered 401 exactly for a
\* caller who is no admin.
C33_IsAdminMemoized ==
    /\ \A c \in UserIds :
          /\ isAdmin(FreshCtx, Users[c]).b = AdminByConfiguration(Users[c])
          /\ isAdmin(FreshCtx, Users[c]).admin
                = (IF AdminByConfiguration(Users[c]) THEN "true" ELSE "false")
          /\ \A m \in {"true", "false"} :
                isAdmin([cache |-> userGroupCache, admin |-> m], Users[c])
                   = [b |-> (m = "true"), cache |-> userGroupCache, admin |-> m]
    /\ (res.op \in AdminOps /\ res.status = 401) => adminRole \notin res.caller.roles

\* C33 (as stated): isAdmin(ctx) on a context that holds no decision yet is true
\* exactly when the caller's id is an admin id, or the caller's roles contain the
\* admin role, or the caller is a member of a stored admin group.
C33_IsAdminByStore ==
    \A c \in UserIds : isAdmin(FreshCtx, Users[c]).b = AdminByStore(Users[c])

\* values for the cached fields of a document
CacheAlternatives == { <<>>, <<"Employee">>, <<"nogroup">> }
\* the document with other values in its cached fields
WithCache(doc, list) ==
    Spread(doc, ("curStateRead" :> list) @@ ("curStateWrite" :> list))
\* the allow/deny outcome of a run: status, kind and the gates and hooks passed
Outcome(r) == <<r.status, r.kind, r.trace>>

\* the gates of getDoc, deleteDoc, runActionForDoc and of updateDoc with the payload
\* args decide the same for the caller on doc and on doc2
SameDecisions(op, caller, type, doc, doc2, args) ==
    CASE op = "getDoc" ->
           Outcome(readRun(caller, type, doc)) = Outcome(readRun(caller, type, doc2))
      [] op = "deleteDoc" ->
           Outcome(deleteRun(caller, type, doc)) = Outcome(deleteRun(caller, type, doc2))
      [] op = "runActionForDoc" ->
           Outcome(actionRun(caller, type, doc)) = Outcome(actionRun(caller, type, doc2))
      [] op = "updateDoc" ->
           Outcome(updateRun(caller, type, doc, args).run)
              = Outcome(updateRun(caller, type, doc2, args).run)
      [] OTHER -> TRUE

\* a call of getDoc, deleteDoc, runActionForDoc or updateDoc on a stored document is
\* answered
DecidedOnStored ==
    /\ Idle /\ res'.op \in {"getDoc", "deleteDoc", "runActionForDoc", "updateDoc"}
    /\ res'.pre # <<>>

C34_EveryCaller ==
    \A type \in Types : \A id \in DOMAIN docColl[type] :
       \A c \in UserIds, list \in CacheAlternatives, op \in {"getDoc", "deleteDoc", "runActionForDoc"} :
          SameDecisions(op, Users[c], type, toInfo(docColl[type][id]),
                        WithCache(toInfo(docColl[type][id]), list), <<>>)

Places(ev) == {i \in 1..Len(res.trace) : res.trace[i] = ev}

\* a successful updateDoc moved a document out of a state S that declares onExit,
\* into another state
MovedOutOfStateWithOnExit ==
    /\ StateChanged /\ CurState[1].onExit
    /\ StateOf(Before) # PGet(res.args, "state")

\* C35: when an updateDoc moves a document out of state S, the onExit hook declared
\* on S is invoked exactly once, after the exit gate and before the entry hook of
\* the target state.
C35_OnExitOnce ==
    MovedOutOfStateWithOnExit =>
        /\ Count("hook:onExit") = 1
        /\ \A i \in Places("hook:onExit") :
              /\ \A j \in Places("gate:exit") : j < i
              /\ \A j \in Places("hook:onEntry") \cup Places("hook:onReentry") : i < j

\* C35, what the code does: no operation invokes an onExit hook
C35_OnExitNeverRuns == Count("hook:onExit") = 0

HookEvents ==
    {"hook:onWrite", "hook:action", "hook:onEntry", "hook:onReentry", "hook:onDelete",
     "hook:onRead", "hook:onExit"}
\* the call invoked a hook
HookRan == \E i \in 1..Len(res.trace) : res.trace[i] \in HookEvents
\* a document operation that a gate refused
RefusedByGate ==
    /\ res.op \in {"updateDoc", "deleteDoc", "createDoc", "createDocById", "getDoc"}
    /\ res.status = 401

\* C36: an updateDoc, deleteDoc, createDoc or getDoc that ends in an authorization
\* failure has invoked no hook.
C36_NoHookBeforeRefusal == RefusedByGate => ~HookRan

\* C36 for deleteDoc, createDoc and getDoc
C36_NoHookBeforeRefusalOthers == (RefusedByGate /\ res.op # "updateDoc") => ~HookRan

\* C36 for an updateDoc that names no new state
C36_NoHookBeforeRefusalNonState ==
    (RefusedByGate /\ res.op = "updateDoc" /\ ~PHas(res.args, "state")) => ~HookRan

\* the state field of a stored document: <<state>>, or <<>> when it has none
StateField(doc) == IF Has(doc, "state") THEN <<doc["state"]>> ELSE <<>>

\* an updateDoc by a caller who is no admin, with a payload without a top-level state
\* key, was answered on a stored document
NoStateKeyUpdate ==
    /\ res.op = "updateDoc" /\ res.pre # <<>> /\ StillStored
    /\ ~CallerIsAdmin /\ ~PHas(res.args, "state")

\* C37: an updateDoc by a caller who is no admin whose payload has no top-level
\* state key, operator keys that begin with '$' included, leaves the stored state
\* as it was.
C37_StateOnlyThroughStateKey ==
    NoStateKeyUpdate => StateField(After) = StateField(Before)

\* C37 for the payloads without a key that begins with '$'
C37_PlainKeysKeepState ==
    (NoStateKeyUpdate /\ \A i \in 1..Len(res.args) : res.args[i].key \notin {"$set", "$unset"})
        => StateField(After) = StateField(Before)

\* the stored groups that gates and transition lists name
GateGroups == {"procurement", "management"}
\* the caller of the call is a member of the stored group G
StoredMemberOf(G) ==
    \E i \in 1..Len(StoredMembers(G)) : EmailIn(StoredMembers(G)[i], res.caller.email)
\* a successful updateDoc by a caller who is no admin
AuthorizedUpdate ==
    /\ res.op = "updateDoc" /\ res.status = 200 /\ res.pre # <<>> /\ StillStored
    /\ ~CallerIsAdmin

\* C38: a successful updateDoc by a caller who is no admin, who does not hold the
\* role G and is no member of the stored group G, and who did not pass a list that
\* names only G on the document before the call, does not pass it on the document
\* after the call.
C38_NoSelfGrant ==
    AuthorizedUpdate =>
        \A G \in GateGroups :
            (/\ G \notin res.caller.roles /\ ~StoredMemberOf(G)
             /\ ~MemberOfAny(<<G>>, toInfo(Before)))
                => ~MemberOfAny(<<G>>, toInfo(After))

\* C38 for the updates that write no field named like a stored group
C38_NoSelfGrantOtherFields ==
    (AuthorizedUpdate /\ \A i \in 1..Len(res.args) : res.args[i].key \notin GateGroups)
        => \A G \in GateGroups :
              (/\ G \notin res.caller.roles /\ ~StoredMemberOf(G)
               /\ ~MemberOfAny(<<G>>, toInfo(Before)))
                  => ~MemberOfAny(<<G>>, toInfo(After))

\* non-empty group lists a callback passes to the helpers
CallbackGroupLists ==
    { <<"Employee">>, <<"procurement">>, <<"management">>, <<"ProcOwner">>, <<"Manager">>,
      <<"admin">>, <<"nogroup">>, <<"nogroup", "procurement">> }
\* an operation that builds a callback context on a stored document was answered
CallbackContext ==
    /\ res.op \in {"getDoc", "updateDoc", "deleteDoc", "runActionForDoc"}
    /\ res.pre # <<>> /\ OnDeclaredType
\* assertCallerInGroup(groups) throws AccessDenied exactly when isCallerInGroup(groups)
\* returns false, in the callback context of the call
HelpersAgree(groups) ==
    (assertCallerInGroup(FreshCtx, res.caller, groups, res.type, toInfo(Before)).r = "denied")
       = (isCallerInGroup(FreshCtx, res.caller, groups, res.type, toInfo(Before)).r = "no")

\* C39: for the caller and the document of every callback context and every
\* non-empty group list, ctx.assertCallerInGroup(groups) throws AccessDenied exactly
\* when ctx.isCallerInGroup(groups) returns false.
C39_HelpersAgree ==
    CallbackContext => \A groups \in CallbackGroupLists : HelpersAgree(groups)

\* C39 for the lists that name no document role of the type and no field of the
\* document
C39_HelpersAgreeOnStoredGroups ==
    CallbackContext =>
        \A groups \in CallbackGroupLists :
            (\A i \in 1..Len(groups) : /\ groups[i] \notin documents[res.type].docRoles
                                        /\ ~Has(toInfo(Before), groups[i]))
                => HelpersAgree(groups)

\* the cached fields of a stored document are the read and write gates of its
\* declared state (the gates of testDocType are lists, the same for every caller)
CacheFollowsState(type, id) ==
    With(toInfo(docColl[type][id]), LAMBDA doc :
        Declared(type, doc) # <<>> =>
            /\ Has(doc, "curStateRead") /\ Has(doc, "curStateWrite")
            /\ doc["curStateRead"] = CacheList(Users["user1"], Declared(type, doc)[1].read, doc)
            /\ doc["curStateWrite"] = CacheList(Users["user1"], Declared(type, doc)[1].write, doc))

\* every updateDoc call that was started has written and was answered
AllReturned == DOMAIN inflight = {} /\ Idle

\* C40: when every concurrent updateDoc call on a document has returned, the stored
\* curStateRead and curStateWrite are the resolved read and write gates of the
\* stored state.
C40_CacheFollowsStateAfterRace ==
    AllReturned => \A id \in DOMAIN docColl["testDocType"] : CacheFollowsState("testDocType", id)

\* C40 for a call whose write met the document as the call had read it
C40_CacheFollowsStateUnraced ==
    (/\ res.op = "updateDoc" /\ res.status = 200 /\ Len(res.pre) = 2 /\ res.pre[1] = res.pre[2]
     /\ StillStored)
        => CacheFollowsState(res.type, res.id)

====
